---- MODULE Spec2Model ----
(***************************************************************************)
(* A model of oobabot's response-decision and message-queue core:          *)
(*   - ImmersionBreakingFilter.filter   (immersion_breaking_filter.py)     *)
(*   - DecideToRespond                  (decide_to_respond.py)             *)
(*   - MessageQueue and DiscordBot's    (discord_bot.py)                   *)
(*     process_messages / _process_message_queue / _handle_response        *)
(***************************************************************************)
EXTENDS Integers, Sequences, FiniteSets, TLC

(***************************************************************************)
(* Bounds of the model.                                                    *)
(***************************************************************************)
\* longest generated text (in tokens) given to the filter
MaxLen == 4

None == "None"

(***************************************************************************)
(* The state: the filter's, the decision engine's, the queue's.            *)
(***************************************************************************)
VARIABLES
    f_use,      \* ImmersionBreakingFilter.use_filter
    f_userlike, \* whether user_message_pattern also matches the bot's own prefix
    f_text,     \* the text handed to filter()
    f_out       \* what filter() returned: [called, text, abort]

fvars == <<f_use, f_userlike, f_text, f_out>>

VARIABLES
    d_cfg,                  \* the settings DecideToRespond was constructed with
    guaranteed_responses,   \* DecideToRespond.guaranteed_responses: channel -> set of ids
    last_mention_times,     \* DecideToRespond.last_mention_times: guild -> LastMentionTimes
    d_last,                 \* the last should_respond_to_message evaluation
    d_cool                  \* in the runs of the decision engine on its own: the channels
                            \* log_cooldown was called for after their last log_mention

dvars == <<d_cfg, guaranteed_responses, last_mention_times, d_last, d_cool>>

VARIABLES
    m_base,     \* the mention tracker before the time_since_last_mention calls of m_calls
    m_calls,    \* the last time_since_last_mention calls made in a row, oldest first:
                \* [message, has, value, after |-> the tracker afterwards]
    i_table,    \* the calibration table given to calc_interpolated_response_chance
    i_elapsed,  \* the time since the last mention given to it
    i_args,     \* the other inputs of a decision about an unsolicited response:
                \* [participants, bang, r]
    i_out,      \* what it returned: [called, n, d, raised]
    r_cfg,      \* [repetition_threshold, similarity_threshold] of the RepetitionTracker
    repetition_count,   \* RepetitionTracker.repetition_count: channel ->
                        \* [text, throttle_message_id, count]
    r_hist,     \* channel -> the messages logged since the entry was last cleared
    r_next      \* the id of the next message the bot posts

mvars == <<m_base, m_calls>>
ivars == <<i_table, i_elapsed, i_args, i_out>>
rvars == <<r_cfg, repetition_count, r_hist, r_next>>

VARIABLES
    p_cfg,      \* the settings of one channel's response pass: [mode, retries,
                \* can_abort, repetition, threads]
    p_queue,    \* the number of messages in the channel's queue
    p_task,     \* the response task (_process_message_queue): [pc, must_cancel, result,
                \* waiter |-> whether the process_messages that cancelled it awaits it]
    p_text,     \* the text task (_send_text_response_in_channel) of the message being
                \* handled and what happened in it
    p_cancels   \* the number of times the response task was cancelled from outside

pvars == <<p_cfg, p_queue, p_task, p_text, p_cancels>>

VARIABLES
    a_cfg,      \* [period, extra, latest_only]: message_accumulation_period in
                \* tenths of a second, continue_on_additional_messages,
                \* respond_to_latest_only
    a_now,      \* time.time() in tenths of a second
    a_queue,    \* the length of the channel's queue
    a_buffer,   \* the length of the channel's buffer
    a_wait      \* the wait task (_accumulate_messages) of the channel

avars == <<a_cfg, a_now, a_queue, a_buffer, a_wait>>
xvars == <<mvars, ivars, rvars, pvars, avars>>

VARIABLES
    q_cfg,          \* [accumulate, latest_only, skip]: message_accumulation_period > 0,
                    \* respond_to_latest_only, skip_in_progress_responses
    q_msgs,         \* message id -> its shape, "unset" before it arrives
    next_id,        \* the id of the next message to arrive
    queues,         \* MessageQueue.queues: channel -> deque, leftmost first
    buffers,        \* MessageQueue.buffers: channel -> deque, leftmost first
    wait_tasks,     \* MessageQueue.wait_tasks: channel -> the handler whose
                    \* _accumulate_messages task it is
    response_tasks, \* MessageQueue.response_tasks: channel -> response task
    panic_tasks,    \* MessageQueue.panic_tasks: channel -> panic task
    tasks,          \* the response tasks
    panics,         \* the panic tasks
    handlers,       \* the suspended process_messages / on_poke calls
    ready,          \* what call_soon holds, first in first: <<"task", t>> the first
                    \* step of response task t, <<"task_cb", t>> its done-callback,
                    \* <<"panic", p>> and <<"panic_cb", p>> those of panic task p
    stray,          \* channel -> the text tasks still running that their response
                    \* task awaits no longer, MaxStray for that many or more
    urgent,         \* the handlers a done-callback step resumes next, in order
    n_cmds,         \* the pokes, unpokes and deletions so far
    q_flush,        \* the buffer the last flush found, leftmost first
    q_busy          \* the messages that arrived while the channel's response task was active

qvars == <<q_cfg, q_msgs, next_id, queues, buffers, wait_tasks, response_tasks,
           panic_tasks, tasks, panics, handlers, ready, stray, urgent, n_cmds,
           q_flush, q_busy>>

vars == <<fvars, d_cfg, d_last, d_cool, guaranteed_responses, last_mention_times, qvars, xvars>>

(***************************************************************************)
(* ImmersionBreakingFilter.                                                *)
(*                                                                         *)
(* A text is a sequence of tokens:                                         *)
(*   "w"   a run of ordinary characters                                    *)
(*   "dot" a sentence terminator                                           *)
(*   "sp"  a space                                                         *)
(*   "nl"  a character of line_split_pattern (\r \n \t \f \v)              *)
(*   "B"   a text bot_message_pattern matches (the bot's own prefix)       *)
(*   "U"   a text user_message_pattern matches (a speaker-name prefix)     *)
(*   "M1", "M2"  the configured stop markers, in their configured order    *)
(***************************************************************************)
Tokens == {"w", "dot", "sp", "nl", "B", "U", "M1", "M2"}
stop_markers == <<"M1", "M2">>
Texts == UNION {[1..n -> Tokens] : n \in 0..MaxLen}

RECURSIVE PrefixLen(_, _)
\* the number of leading tokens of s that are in S
PrefixLen(s, S) ==
    IF s = <<>> \/ Head(s) \notin S THEN 0 ELSE 1 + PrefixLen(Tail(s), S)

RECURSIVE Concat(_)
\* "".join(seqs)
Concat(seqs) == IF seqs = <<>> THEN <<>> ELSE Head(seqs) \o Concat(Tail(seqs))

RECURSIVE RStrip(_)
\* str.rstrip(" ")
RStrip(s) ==
    IF s # <<>> /\ s[Len(s)] = "sp" THEN RStrip(SubSeq(s, 1, Len(s) - 1)) ELSE s

\* str.strip() is empty: the text is whitespace only
IsBlank(s) == \A i \in 1..Len(s) : s[i] \in {"sp", "nl"}

RECURSIVE split(_)
\* line_split_regex.split(text): the pieces between runs of split characters,
\* with the runs themselves kept in between (the pattern has a capture group)
split(text) ==
    LET n == PrefixLen(text, Tokens \ {"nl"})
    IN  IF n = Len(text) THEN <<text>>
        ELSE LET rest == SubSeq(text, n + 1, Len(text))
                 k == PrefixLen(rest, {"nl"})
             IN  <<SubSeq(text, 1, n), SubSeq(rest, 1, k)>>
                    \o split(SubSeq(rest, k + 1, Len(rest)))

RECURSIVE SentenceSplitter(_)
\* pysbd.Segmenter(clean=False).segment on a text without leading spaces: a
\* sentence ends after a terminator and the spaces that follow it
SentenceSplitter(s) ==
    IF s = <<>> THEN <<>>
    ELSE LET n == PrefixLen(s, Tokens \ {"dot"})
         IN  IF n = Len(s) THEN <<s>>
             ELSE LET rest == SubSeq(s, n + 2, Len(s))
                      k == PrefixLen(rest, {"sp"})
                  IN  <<SubSeq(s, 1, n + 1 + k)>>
                         \o SentenceSplitter(SubSeq(rest, k + 1, Len(rest)))

\* the leading whitespace of a line (whitespace_regex.match)
LeadingWhitespace(line) == SubSeq(line, 1, PrefixLen(line, {"sp"}))

\* ImmersionBreakingFilter.segment: every sentence gets exactly one trailing
\* space, except the last one, which gets none
segment(line) ==
    LET body == SubSeq(line, PrefixLen(line, {"sp"}) + 1, Len(line))
        raw == SentenceSplitter(body)
    IN  [i \in 1..Len(raw) |->
            IF i = Len(raw) THEN RStrip(raw[i]) ELSE RStrip(raw[i]) \o <<"sp">>]

\* index of the first occurrence of marker in sentence, 0 if there is none
FirstIndex(sentence, marker) ==
    IF \E i \in 1..Len(sentence) : sentence[i] = marker
    THEN CHOOSE i \in 1..Len(sentence) :
            /\ sentence[i] = marker
            /\ \A j \in 1..(i - 1) : sentence[j] # marker
    ELSE 0

\* the first configured stop marker that occurs in the sentence, None if none does
FirstMarker(sentence) ==
    LET hits == {k \in 1..Len(stop_markers) : FirstIndex(sentence, stop_markers[k]) > 0}
    IN  IF hits = {} THEN None
        ELSE stop_markers[CHOOSE k \in hits : \A j \in hits : k <= j]

\* bot_message_pattern.match(sentence): trim the bot's own prefix
TrimBotName(sentence) ==
    IF sentence # <<>> /\ Head(sentence) = "B" THEN Tail(sentence) ELSE sentence

\* user_message_pattern.match(sentence)
MatchesUser(sentence, userlike) ==
    /\ sentence # <<>>
    /\ \/ Head(sentence) = "U"
       \/ userlike /\ Head(sentence) = "B"

RECURSIVE FilterSentences(_, _, _)
\* the sentence loop of filter(): [good |-> good_sentences, abort |-> abort_response]
FilterSentences(sentences, good, userlike) ==
    IF sentences = <<>> THEN [good |-> good, abort |-> FALSE]
    ELSE LET sentence == TrimBotName(Head(sentences))
             marker == FirstMarker(sentence)
         IN  IF MatchesUser(sentence, userlike)
             THEN [good |-> good, abort |-> TRUE]
             ELSE IF marker # None
             THEN LET keep_part == SubSeq(sentence, 1, FirstIndex(sentence, marker) - 1)
                  IN  [good |-> IF keep_part # <<>> THEN Append(good, keep_part) ELSE good,
                       abort |-> TRUE]
             ELSE FilterSentences(
                      Tail(sentences),
                      IF IsBlank(sentence) THEN good ELSE Append(good, sentence),
                      userlike)

RECURSIVE FilterLines(_, _, _)
\* the line loop of filter(): once abort_response is set the loop is left before
\* good_line is built, so the sentences kept of that line are not in good_lines
FilterLines(lines, good_lines, userlike) ==
    IF lines = <<>> THEN [text |-> Concat(good_lines), abort |-> FALSE]
    ELSE LET line == Head(lines)
         IN  IF \A i \in 1..Len(line) : line[i] = "nl"
             THEN FilterLines(Tail(lines), Append(good_lines, line), userlike)
             ELSE LET r == FilterSentences(segment(line), <<>>, userlike)
                      good_line == LeadingWhitespace(line) \o Concat(r.good)
                  IN  IF r.abort
                      THEN [text |-> Concat(good_lines), abort |-> TRUE]
                      ELSE FilterLines(
                               Tail(lines),
                               IF good_line # <<>> THEN Append(good_lines, good_line)
                               ELSE good_lines,
                               userlike)

\* a filter() that filters even when use_filter is off
filter_always(text, use_filter, userlike) ==
    FilterLines(split(text), <<>>, userlike)

\* ImmersionBreakingFilter.filter
filter(text, use_filter, userlike) ==
    IF ~use_filter THEN [text |-> text, abort |-> FALSE]
    ELSE FilterLines(split(text), <<>>, userlike)

FilterInit ==
    /\ f_use \in BOOLEAN
    /\ f_userlike \in BOOLEAN
    /\ f_text \in Texts
    /\ f_out = [called |-> FALSE, text |-> <<>>, abort |-> FALSE]

\* one call of filter() on the text
FilterCall ==
    /\ ~f_out.called
    /\ f_out' = [called |-> TRUE,
                 text |-> filter(f_text, f_use, f_userlike).text,
                 abort |-> filter(f_text, f_use, f_userlike).abort]
    /\ UNCHANGED <<f_use, f_userlike, f_text>>
    /\ UNCHANGED <<dvars, qvars, xvars>>

(***************************************************************************)
(* Python dicts are functions whose domain is the set of keys present.     *)
(***************************************************************************)
EmptyDict == [k \in {} |-> None]
DictPut(d, k, v) == [x \in (DOMAIN d) \cup {k} |-> IF x = k THEN v ELSE d[x]]
DictPop(d, k) == [x \in (DOMAIN d) \ {k} |-> d[x]]

(***************************************************************************)
(* DecideToRespond.                                                        *)
(*                                                                         *)
(* Times are whole seconds, chances are whole percents.  A message is a    *)
(* record                                                                  *)
(*   message_id, channel_id, guild_id                                      *)
(*   kind     "channel" (types.ChannelMessage), "group" (GroupMessage) or  *)
(*            "dm" (DirectMessage)                                         *)
(*   author   "user", "bot" (author_is_bot) or "self" (author_id is ours)  *)
(*   hidden   body_text starts with one of ignore_prefixes                  *)
(*   mentions "none", "bot" (only we are @-mentioned), "other" (others     *)
(*            are, we are not) or "both"                                   *)
(*   wakeword persona.contains_wakeword(body_text)                         *)
(*   bang     body_text ends with "?" or with "!"                          *)
(*   send_timestamp                                                        *)
(***************************************************************************)
\* latest message timestamp of the decision model
MaxTime == 2
\* the message ids of the decision model
MaxDecideIds == 2

\* the calibration table time_vs_response_chance of the decision model, sorted
\* by the constructor: rows of (duration, chance)
time_vs_response_chance == <<[duration |-> 1, chance |-> 100], [duration |-> 2, chance |-> 50]>>
\* a calibration table whose last_mention_cache_timeout is 1
ShortTable == <<[duration |-> 1, chance |-> 100]>>
\* interrobang_bonus, in percent
interrobang_bonus == 30
\* the values random.random() is drawn from, in percent: [0, 1)
Draws == {0, 99}

GuildChannels == {1, 2}
DmChannel == 3
GroupChannel == 4
DChannels == GuildChannels \cup {DmChannel, GroupChannel}
TheGuild == 10
ChannelKind(c) ==
    IF c \in GuildChannels THEN "channel" ELSE IF c = DmChannel THEN "dm" ELSE "group"
\* the guild id the callers of log_mention and log_cooldown use for a channel:
\* channel.guild.id if channel.guild else channel.id
GuildOf(c) == IF c \in GuildChannels THEN TheGuild ELSE c

\* max(time for time, _ in self.time_vs_response_chance)
last_mention_cache_timeout(table) ==
    LET durations == {table[i].duration : i \in 1..Len(table)}
    IN  CHOOSE m \in durations : \A x \in durations : x <= m

\* sorted(self.values())[-n]: the n-th largest timestamp, duplicates counted
NthLargest(times, n) ==
    CHOOSE v \in {times[c] : c \in DOMAIN times} :
        /\ Cardinality({c \in DOMAIN times : times[c] > v}) < n
        /\ Cardinality({c \in DOMAIN times : times[c] >= v}) >= n

\* a purge_outdated that leaves the cooldowns as they are
purge_outdated_keeping_cooldowns(tracker, latest_timestamp, cache_timeout, cap) ==
    LET base == latest_timestamp - cache_timeout
        oldest_time_to_keep ==
            IF cap # 0 /\ Cardinality(DOMAIN tracker.times) > cap
            THEN LET nth == NthLargest(tracker.times, cap)
                 IN  IF nth > base THEN nth ELSE base
            ELSE base
        kept == {c \in DOMAIN tracker.times : tracker.times[c] >= oldest_time_to_keep}
    IN  [times |-> [c \in kept |-> tracker.times[c]],
         cooldowns |-> tracker.cooldowns]

\* LastMentionTimes.purge_outdated, on one guild's tracker [times, cooldowns]
purge_outdated(tracker, latest_timestamp, cache_timeout, cap) ==
    LET base == latest_timestamp - cache_timeout
        oldest_time_to_keep ==
            IF cap # 0 /\ Cardinality(DOMAIN tracker.times) > cap
            THEN LET nth == NthLargest(tracker.times, cap)
                 IN  IF nth > base THEN nth ELSE base
            ELSE base
        kept == {c \in DOMAIN tracker.times : tracker.times[c] >= oldest_time_to_keep}
    IN  [times |-> [c \in kept |-> tracker.times[c]],
         cooldowns |-> tracker.cooldowns \cap kept]

\* DecideToRespond.log_mention (with LastMentionTimes.log_mention)
log_mention(lmt, guild_id, channel_id, send_timestamp) ==
    LET tracker == IF guild_id \in DOMAIN lmt THEN lmt[guild_id]
                   ELSE [times |-> EmptyDict, cooldowns |-> {}]
    IN  DictPut(lmt, guild_id,
                [times |-> DictPut(tracker.times, channel_id, send_timestamp),
                 cooldowns |-> tracker.cooldowns \ {channel_id}])

\* DecideToRespond.log_cooldown
log_cooldown(lmt, guild_id, channel_id) ==
    IF guild_id \in DOMAIN lmt
       /\ DOMAIN lmt[guild_id].times # {}
       /\ channel_id \in DOMAIN lmt[guild_id].times
    THEN [lmt EXCEPT ![guild_id].cooldowns = @ \cup {channel_id}]
    ELSE lmt

\* DecideToRespond.is_cooling
is_cooling(lmt, guild_id, channel_id) ==
    /\ guild_id \in DOMAIN lmt
    /\ DOMAIN lmt[guild_id].times # {}
    /\ channel_id \in lmt[guild_id].cooldowns

\* a time_since_last_mention that looks the mention up before it purges
time_since_last_mention_unpurged(lmt, message, cfg) ==
    LET timeout == last_mention_cache_timeout(cfg.table)
        each == [g \in DOMAIN lmt |->
                    purge_outdated(lmt[g], message.send_timestamp, timeout, cfg.cap)]
        keep == {g \in DOMAIN lmt : DOMAIN each[g].times # {}}
        has == /\ message.guild_id \in DOMAIN lmt
               /\ message.channel_id \in DOMAIN lmt[message.guild_id].times
    IN  [lmt |-> [g \in keep |-> each[g]],
         has |-> has,
         value |-> IF has
                   THEN message.send_timestamp
                            - lmt[message.guild_id].times[message.channel_id]
                   ELSE 0]

\* DecideToRespond.time_since_last_mention: [lmt |-> the tracker after the
\* purge, has |-> whether there is a last mention (the result is not None),
\* value |-> the time since it]
time_since_last_mention(lmt, message, cfg) ==
    LET timeout == last_mention_cache_timeout(cfg.table)
        each == [g \in DOMAIN lmt |->
                    purge_outdated(lmt[g], message.send_timestamp, timeout, cfg.cap)]
        keep == {g \in DOMAIN lmt : DOMAIN each[g].times # {}}
        purged == [g \in keep |-> each[g]]
        has == /\ message.guild_id \in keep
               /\ message.channel_id \in DOMAIN purged[message.guild_id].times
    IN  [lmt |-> purged,
         has |-> has,
         value |-> IF has
                   THEN message.send_timestamp
                            - purged[message.guild_id].times[message.channel_id]
                   ELSE 0]

RECURSIVE InterpolateFrom(_, _, _, _, _)
\* the loop of calc_interpolated_response_chance from row i on.  The chance is
\* the fraction n/d of a percent; raised tells a ZeroDivisionError
InterpolateFrom(t, table, i, duration, chance) ==
    IF i > Len(table) THEN [n |-> 0, d |-> 1, raised |-> FALSE]
    ELSE LET next_duration == table[i].duration
             next_chance == table[i].chance
         IN  IF duration <= t /\ t <= next_duration
             THEN IF next_duration - duration = 0
                  THEN [n |-> 0, d |-> 1, raised |-> TRUE]
                  ELSE [n |-> chance * (next_duration - duration)
                                + (next_chance - chance) * (t - duration),
                        d |-> next_duration - duration,
                        raised |-> FALSE]
             ELSE InterpolateFrom(t, table, i + 1, next_duration, next_chance)

\* DecideToRespond.calc_interpolated_response_chance
calc_interpolated_response_chance(t, table) ==
    IF table = <<>> THEN [n |-> 100, d |-> 1, raised |-> FALSE]
    ELSE InterpolateFrom(t, table, 1, 0, table[1].chance)

is_mentioned(message) == message.mentions \in {"bot", "both"}

\* a provide_unsolicited_response_in_channel that does not ask is_cooling
provide_unsolicited_response_while_cooling(lmt, message, cfg, r) ==
    LET Draw(since, c) ==
            LET bonus == IF message.bang THEN interrobang_bonus * c.d ELSE 0
                n == IF c.n + bonus > 100 * c.d THEN 100 * c.d ELSE c.n + bonus
            IN  IF c.raised
                THEN [lmt |-> since.lmt, result |-> FALSE, raised |-> TRUE]
                ELSE [lmt |-> since.lmt,
                      result |-> c.n # 0 /\ r * c.d <= n,
                      raised |-> FALSE]
        Since(since) ==
            IF ~since.has
            THEN [lmt |-> since.lmt, result |-> FALSE, raised |-> FALSE]
            ELSE Draw(since, calc_interpolated_response_chance(since.value, cfg.table))
    IN  IF message.mentions # "none" /\ ~is_mentioned(message)
        THEN [lmt |-> lmt, result |-> FALSE, raised |-> FALSE]
        ELSE IF cfg.disable_unsolicited_replies
        THEN [lmt |-> lmt, result |-> FALSE, raised |-> FALSE]
        ELSE Since(time_since_last_mention(lmt, message, cfg))

\* DecideToRespond.provide_unsolicited_response_in_channel with the draw r of
\* random.random(): [lmt |-> the tracker afterwards, result, raised]
provide_unsolicited_response_in_channel(lmt, message, cfg, r) ==
    LET Draw(since, c) ==
            LET bonus == IF message.bang THEN interrobang_bonus * c.d ELSE 0
                n == IF c.n + bonus > 100 * c.d THEN 100 * c.d ELSE c.n + bonus
            IN  IF c.raised
                THEN [lmt |-> since.lmt, result |-> FALSE, raised |-> TRUE]
                ELSE [lmt |-> since.lmt,
                      result |-> c.n # 0 /\ r * c.d <= n,
                      raised |-> FALSE]
        Since(since) ==
            IF ~since.has
               \/ is_cooling(since.lmt, message.guild_id, message.channel_id)
            THEN [lmt |-> since.lmt, result |-> FALSE, raised |-> FALSE]
            ELSE Draw(since, calc_interpolated_response_chance(since.value, cfg.table))
    IN  IF message.mentions # "none" /\ ~is_mentioned(message)
        THEN [lmt |-> lmt, result |-> FALSE, raised |-> FALSE]
        ELSE IF cfg.disable_unsolicited_replies
        THEN [lmt |-> lmt, result |-> FALSE, raised |-> FALSE]
        ELSE Since(time_since_last_mention(lmt, message, cfg))

\* DecideToRespond.is_directly_mentioned
is_directly_mentioned(message, cfg) ==
    IF message.kind = "dm" THEN ~cfg.ignore_dms
    ELSE \/ message.kind = "channel" /\ is_mentioned(message)
         \/ message.wakeword

\* DecideToRespond.should_ignore_message
should_ignore_message(message, cfg) ==
    \/ message.author = "bot" /\ cfg.ignore_bots
    \/ message.author = "self"
    \/ message.hidden

\* DecideToRespond.get_guarantees; the empty set stands for None as well, and
\* every caller treats the two alike
get_guarantees(guaranteed, channel_id) ==
    IF channel_id \in DOMAIN guaranteed THEN guaranteed[channel_id] ELSE {}

\* a should_respond_to_message that reports no direct mention for a guaranteed message
should_respond_guaranteed_not_direct(guaranteed, message, cfg, unsolicited) ==
    LET is_direct_mention == is_directly_mentioned(message, cfg)
        g == get_guarantees(guaranteed, message.channel_id)
    IN  IF message.message_id \in g
        THEN [respond |-> TRUE, direct |-> FALSE, asked |-> FALSE,
              guaranteed |-> IF g \ {message.message_id} = {}
                             THEN DictPop(guaranteed, message.channel_id)
                             ELSE DictPut(guaranteed, message.channel_id,
                                          g \ {message.message_id})]
        ELSE IF should_ignore_message(message, cfg)
        THEN [respond |-> FALSE, direct |-> FALSE, asked |-> FALSE, guaranteed |-> guaranteed]
        ELSE IF is_direct_mention
        THEN [respond |-> TRUE, direct |-> TRUE, asked |-> FALSE, guaranteed |-> guaranteed]
        ELSE IF message.kind = "channel"
        THEN [respond |-> unsolicited, direct |-> FALSE, asked |-> TRUE,
              guaranteed |-> guaranteed]
        ELSE [respond |-> FALSE, direct |-> FALSE, asked |-> FALSE, guaranteed |-> guaranteed]

\* a should_respond_to_message that leaves the guarantee it uses in the set
should_respond_keeping_guarantee(guaranteed, message, cfg, unsolicited) ==
    LET is_direct_mention == is_directly_mentioned(message, cfg)
        g == get_guarantees(guaranteed, message.channel_id)
    IN  IF message.message_id \in g
        THEN [respond |-> TRUE, direct |-> is_direct_mention, asked |-> FALSE,
              guaranteed |-> guaranteed]
        ELSE IF should_ignore_message(message, cfg)
        THEN [respond |-> FALSE, direct |-> FALSE, asked |-> FALSE, guaranteed |-> guaranteed]
        ELSE IF is_direct_mention
        THEN [respond |-> TRUE, direct |-> TRUE, asked |-> FALSE, guaranteed |-> guaranteed]
        ELSE IF message.kind = "channel"
        THEN [respond |-> unsolicited, direct |-> FALSE, asked |-> TRUE,
              guaranteed |-> guaranteed]
        ELSE [respond |-> FALSE, direct |-> FALSE, asked |-> FALSE, guaranteed |-> guaranteed]

\* a should_respond_to_message that looks at the direct mention before the
\* ignore rule
should_respond_direct_first(guaranteed, message, cfg, unsolicited) ==
    LET is_direct_mention == is_directly_mentioned(message, cfg)
        g == get_guarantees(guaranteed, message.channel_id)
    IN  IF message.message_id \in g
        THEN [respond |-> TRUE, direct |-> is_direct_mention, asked |-> FALSE,
              guaranteed |-> IF g \ {message.message_id} = {}
                             THEN DictPop(guaranteed, message.channel_id)
                             ELSE DictPut(guaranteed, message.channel_id,
                                          g \ {message.message_id})]
        ELSE IF is_direct_mention
        THEN [respond |-> TRUE, direct |-> TRUE, asked |-> FALSE, guaranteed |-> guaranteed]
        ELSE IF should_ignore_message(message, cfg)
        THEN [respond |-> FALSE, direct |-> FALSE, asked |-> FALSE, guaranteed |-> guaranteed]
        ELSE IF message.kind = "channel"
        THEN [respond |-> unsolicited, direct |-> FALSE, asked |-> TRUE,
              guaranteed |-> guaranteed]
        ELSE [respond |-> FALSE, direct |-> FALSE, asked |-> FALSE, guaranteed |-> guaranteed]

\* DecideToRespond.should_respond_to_message.  unsolicited is what
\* provide_unsolicited_response_in_channel returns when it is asked (asked tells
\* whether it is): [respond, direct, asked, guaranteed |-> the sets afterwards]
should_respond_to_message(guaranteed, message, cfg, unsolicited) ==
    LET is_direct_mention == is_directly_mentioned(message, cfg)
        g == get_guarantees(guaranteed, message.channel_id)
    IN  IF message.message_id \in g
        THEN [respond |-> TRUE, direct |-> is_direct_mention, asked |-> FALSE,
              guaranteed |-> IF g \ {message.message_id} = {}
                             THEN DictPop(guaranteed, message.channel_id)
                             ELSE DictPut(guaranteed, message.channel_id,
                                          g \ {message.message_id})]
        ELSE IF should_ignore_message(message, cfg)
        THEN [respond |-> FALSE, direct |-> FALSE, asked |-> FALSE, guaranteed |-> guaranteed]
        ELSE IF is_direct_mention
        THEN [respond |-> TRUE, direct |-> TRUE, asked |-> FALSE, guaranteed |-> guaranteed]
        ELSE IF message.kind = "channel"
        THEN [respond |-> unsolicited, direct |-> FALSE, asked |-> TRUE,
              guaranteed |-> guaranteed]
        ELSE [respond |-> FALSE, direct |-> FALSE, asked |-> FALSE, guaranteed |-> guaranteed]

\* DecideToRespond.guarantee_response
guarantee_response(guaranteed, channel_id, message_id) ==
    DictPut(guaranteed, channel_id,
            (IF channel_id \in DOMAIN guaranteed THEN guaranteed[channel_id] ELSE {})
                \cup {message_id})

\* DecideToRespond.purge_guarantees
purge_guarantees(guaranteed, channel_id) == DictPop(guaranteed, channel_id)

(***************************************************************************)
(* The decision engine on its own: guarantees are logged and purged,       *)
(* mentions and cooldowns are logged, and messages are evaluated.          *)
(***************************************************************************)
DecideIds == 1..MaxDecideIds
\* the channels messages are evaluated in: a guild channel, the DM, the group
DEvalChannels == {1, DmChannel, GroupChannel}
\* author and hidden prefix of the evaluated messages
DAuthors == {<<"user", FALSE>>, <<"user", TRUE>>, <<"bot", FALSE>>, <<"self", FALSE>>}

DMessages ==
    {[message_id |-> i, channel_id |-> c, guild_id |-> GuildOf(c),
      kind |-> ChannelKind(c), author |-> a[1], hidden |-> a[2],
      mentions |-> m, wakeword |-> w, bang |-> FALSE, send_timestamp |-> MaxTime] :
        i \in DecideIds, c \in DEvalChannels, a \in DAuthors,
        m \in {"none", "bot", "other"}, w \in BOOLEAN}

\* d_last before the first evaluation.  seq alternates with every evaluation;
\* asked_mentions is the message's mentions where
\* provide_unsolicited_response_in_channel was asked about it
NoEvaluation ==
    [seq |-> 0, message_id |-> 0, channel_id |-> 0, kind |-> None,
     guaranteed |-> FALSE, ignorable |-> FALSE, is_direct |-> FALSE,
     unsolicited |-> "unasked", respond |-> FALSE, direct |-> FALSE,
     asked_mentions |-> None]

DecideInit ==
    /\ d_cfg \in [ignore_dms : BOOLEAN, ignore_bots : {TRUE},
                  disable_unsolicited_replies : {FALSE}, cap : {0},
                  table : {time_vs_response_chance}]
    /\ guaranteed_responses = EmptyDict
    /\ last_mention_times = EmptyDict
    /\ d_last = NoEvaluation
    /\ d_cool = {}

\* decide_to_respond.guarantee_response(channel_id, message_id)
DGuarantee(c, m) ==
    /\ guaranteed_responses' = guarantee_response(guaranteed_responses, c, m)
    /\ UNCHANGED <<d_cfg, last_mention_times, d_last, d_cool>>
    /\ UNCHANGED <<fvars, qvars, xvars>>

\* decide_to_respond.purge_guarantees(channel_id)
DPurge(c) ==
    /\ c \in DOMAIN guaranteed_responses
    /\ guaranteed_responses' = purge_guarantees(guaranteed_responses, c)
    /\ UNCHANGED <<d_cfg, last_mention_times, d_last, d_cool>>
    /\ UNCHANGED <<fvars, qvars, xvars>>

\* decide_to_respond.log_mention(guild_id, channel_id, send_timestamp)
DLogMention(c, ts) ==
    /\ last_mention_times' = log_mention(last_mention_times, GuildOf(c), c, ts)
    /\ d_cool' = d_cool \ {c}
    /\ UNCHANGED <<d_cfg, guaranteed_responses, d_last>>
    /\ UNCHANGED <<fvars, qvars, xvars>>

\* decide_to_respond.log_cooldown(guild_id, channel_id) where it has an effect
DLogCooldown(c) ==
    /\ last_mention_times' = log_cooldown(last_mention_times, GuildOf(c), c)
    /\ last_mention_times' # last_mention_times
    /\ d_cool' = d_cool \cup {c}
    /\ UNCHANGED <<d_cfg, guaranteed_responses, d_last>>
    /\ UNCHANGED <<fvars, qvars, xvars>>

\* decide_to_respond.should_respond_to_message(bot_user_id, message), with the
\* draw r of random.random(); an evaluation that draws nothing is taken once
DEvaluate(message, r) ==
    LET u == provide_unsolicited_response_in_channel(last_mention_times, message, d_cfg, r)
        res == should_respond_to_message(guaranteed_responses, message, d_cfg, u.result)
    IN  /\ ~(res.asked /\ u.raised)
        /\ res.asked \/ \A x \in Draws : r <= x
        /\ guaranteed_responses' = res.guaranteed
        /\ last_mention_times' = IF res.asked THEN u.lmt ELSE last_mention_times
        /\ d_last' = [seq |-> 1 - d_last.seq,
                      message_id |-> message.message_id,
                      channel_id |-> message.channel_id,
                      kind |-> message.kind,
                      guaranteed |-> message.message_id
                          \in get_guarantees(guaranteed_responses, message.channel_id),
                      ignorable |-> should_ignore_message(message, d_cfg),
                      is_direct |-> is_directly_mentioned(message, d_cfg),
                      unsolicited |-> IF ~res.asked THEN "unasked"
                                      ELSE IF u.result THEN "yes" ELSE "no",
                      respond |-> res.respond,
                      direct |-> res.direct,
                      asked_mentions |-> IF res.asked THEN message.mentions ELSE None]
        /\ UNCHANGED <<d_cfg, d_cool>>
        /\ UNCHANGED <<fvars, qvars, xvars>>

DecideNext ==
    \/ \E c \in {1, DmChannel}, m \in DecideIds : DGuarantee(c, m)
    \/ \E c \in DChannels : DPurge(c)
    \/ \E ts \in 0..MaxTime : DLogMention(1, ts)
    \/ DLogCooldown(1)
    \/ \E message \in DMessages, r \in Draws : DEvaluate(message, r)

(***************************************************************************)
(* MessageQueue and the DiscordBot handlers that drive it, for the         *)
(* channels QChannels.  Every message of this part is a ChannelMessage of  *)
(* type default or reply with send_timestamp 0 and a text body; the bot    *)
(* does not answer in threads.                                             *)
(*                                                                         *)
(* asyncio runs one task step at a time.  An action is one step: the code  *)
(* between two suspension points.  A task that has finished is done() at   *)
(* once, its done-callbacks run in a later step, and the tasks awaiting it *)
(* are resumed right after them, in the order they began to wait.  The     *)
(* first step of a new task and the done-callbacks of a finished one are   *)
(* handed to call_soon and run in the order they were handed over; what    *)
(* a timer or the network wakes runs whenever that happens.                *)
(***************************************************************************)
\* the number of messages that arrive
MaxMsgs == 3
\* the response tasks (_process_message_queue) that exist at a time
MaxTasks == 3
\* the suspended handlers (process_messages, on_poke) that exist at a time
MaxHandlers == 2
\* the panic tasks (_panic) that exist at a time
MaxPanics == 2
\* the text tasks a response task has left running behind it
MaxStray == 1
\* the messages, pokes and unpokes of a run
MaxEvents == 3

QChannels == {1}
QIds == 1..MaxMsgs
QTasks == 1..MaxTasks
QHandlers == 1..MaxHandlers
QPanics == 1..MaxPanics
\* what arrives: a plain message, one that @-mentions the bot, one of the bot's own
QShapes == {"plain", "direct", "ignored"}

\* the message record of a queued message id
QMessage(shapes, c, m) ==
    [message_id |-> m, channel_id |-> c, guild_id |-> GuildOf(c), kind |-> "channel",
     author |-> IF shapes[m] = "ignored" THEN "self" ELSE "user",
     hidden |-> FALSE,
     mentions |-> IF shapes[m] = "direct" THEN "bot" ELSE "none",
     wakeword |-> FALSE, bang |-> FALSE, send_timestamp |-> 0]

(* A response task:
     pc          "free"     no such task
                 "created"  create_task() was called, the first step has not run
                 "presend"  in _handle_response, awaiting try_session() or the
                            image descriptions, before the text task exists
                 "wait"     in _handle_response, awaiting asyncio.wait()
                 "cleanup"  in the except block, awaiting the cancelled text task
                 "done"     finished; its done-callbacks have not run yet
     must_cancel cancel() was called and the CancelledError is not yet raised
     dq          the deque get_queue() returned: "none" (None), "live" (the
                 deque of queues[channel]) or "stale" (a deque no longer there)
     cur         the message being answered
     summon      is_summon_in_public_channel of cur
     text, image the text and image task of cur: "none", "run", "cancelling", "done"
     cancelled   the task ended with a CancelledError
     waiters     the handlers awaiting this task                            *)
FreeTask ==
    [pc |-> "free", ch |-> 0, must_cancel |-> FALSE, dq |-> "none", cur |-> 0,
     summon |-> FALSE, text |-> "none", image |-> "none",
     cancelled |-> FALSE, waiters |-> <<>>]

(* A panic task: pc "free", "created", "sleeping" or "done"; failed tells that it
   ended with an exception (cancelled before its first step, or a KeyError)  *)
FreePanic ==
    [pc |-> "free", ch |-> 0, must_cancel |-> FALSE, failed |-> FALSE, waiters |-> <<>>]

(* A suspended handler:
     pc    "idle"        no such handler
           "run"         the handler is running
           "calm_wait"   on_poke, in calm_down, awaiting the cancelled panic task
           "buffer_wait" process_messages, in buffer(), awaiting its wait task
           "cancel_wait" process_messages, awaiting the cancelled response task
     msg            raw_message
     is_guaranteed  the local of process_messages
     gref           the local guaranteed: "none" (None), "live" (the set of
                    guaranteed_responses[channel]) or "stale" (a set no longer there)
     wait_done      its _accumulate_messages task has finished
     failed         the task it awaited ended with an exception                *)
IdleHandler ==
    [pc |-> "idle", ch |-> 0, msg |-> 0, is_guaranteed |-> FALSE, gref |-> "none",
     wait_done |-> FALSE, failed |-> FALSE]

\* the state the operations below transform
QState ==
    [queues |-> queues, buffers |-> buffers, wait_tasks |-> wait_tasks,
     response_tasks |-> response_tasks, panic_tasks |-> panic_tasks,
     tasks |-> tasks, panics |-> panics, handlers |-> handlers, ready |-> ready,
     stray |-> stray,
     guaranteed |-> guaranteed_responses, lmt |-> last_mention_times]

QSet(st) ==
    /\ queues' = st.queues
    /\ buffers' = st.buffers
    /\ wait_tasks' = st.wait_tasks
    /\ response_tasks' = st.response_tasks
    /\ panic_tasks' = st.panic_tasks
    /\ tasks' = st.tasks
    /\ panics' = st.panics
    /\ handlers' = st.handlers
    /\ stray' = st.stray
    /\ ready' = st.ready
    /\ guaranteed_responses' = st.guaranteed
    /\ last_mention_times' = st.lmt

\* s without its first occurrence of m
RECURSIVE RemoveFirst(_, _)
RemoveFirst(s, m) ==
    IF s = <<>> THEN <<>>
    ELSE IF Head(s) = m THEN Tail(s)
    ELSE <<Head(s)>> \o RemoveFirst(Tail(s), m)

RECURSIVE Reverse(_)
Reverse(s) == IF s = <<>> THEN <<>> ELSE Reverse(Tail(s)) \o <<Head(s)>>

Contains(s, m) == \E i \in 1..Len(s) : s[i] = m

\* MessageQueue.get_queue_length
get_queue_length(st, c) == IF c \in DOMAIN st.queues THEN Len(st.queues[c]) ELSE 0

\* MessageQueue.contains_message
contains_message(st, c, m) == c \in DOMAIN st.queues /\ Contains(st.queues[c], m)

\* MessageQueue.is_buffered: tests the message against the keys of buffers, the
\* channel ids, and a message is never equal to one
is_buffered(st, c, m) == c \in DOMAIN st.buffers /\ FALSE

\* MessageQueue.is_buffering
is_buffering(st, c) ==
    c \in DOMAIN st.wait_tasks /\ ~st.handlers[st.wait_tasks[c]].wait_done

\* MessageQueue.is_panicking
is_panicking(st, c) ==
    c \in DOMAIN st.panic_tasks /\ st.panics[st.panic_tasks[c]].pc # "done"

\* MessageQueue.is_responding
is_responding(st, c) ==
    c \in DOMAIN st.response_tasks /\ st.tasks[st.response_tasks[c]].pc # "done"

\* MessageQueue.remove_queue: the deque leaves the dict, the tasks that hold it
\* keep it
remove_queue(st, c) ==
    [st EXCEPT !.queues = DictPop(@, c),
               !.tasks = [t \in QTasks |->
                            IF @[t].ch = c /\ @[t].dq = "live" /\ c \in DOMAIN st.queues
                            THEN [@[t] EXCEPT !.dq = "stale"] ELSE @[t]]]

\* MessageQueue._remove_empty_queue
remove_empty_queue(st, c) ==
    IF c \in DOMAIN st.queues /\ st.queues[c] = <<>> THEN remove_queue(st, c) ELSE st

\* MessageQueue.appendleft (with _ensure_queue)
appendleft(st, c, m) ==
    [st EXCEPT !.queues = DictPut(@, c, <<m>> \o (IF c \in DOMAIN @ THEN @[c] ELSE <<>>))]

\* MessageQueue.append (with _ensure_queue)
append(st, c, m) ==
    [st EXCEPT !.queues = DictPut(@, c, (IF c \in DOMAIN @ THEN @[c] ELSE <<>>) \o <<m>>)]

\* MessageQueue.extendleft (with _ensure_queue): a series of appendleft, which
\* reverses the order of the messages added
extendleft(st, c, messages) ==
    [st EXCEPT !.queues = DictPut(@, c, Reverse(messages)
                                          \o (IF c \in DOMAIN @ THEN @[c] ELSE <<>>))]

\* MessageQueue.clear, for a channel that has a queue
clear(st, c) == remove_empty_queue([st EXCEPT !.queues[c] = <<>>], c)

\* MessageQueue.remove, for a channel whose queue holds the message
remove(st, c, m) == remove_empty_queue([st EXCEPT !.queues[c] = RemoveFirst(@, m)], c)

\* MessageQueue.unbuffer
unbuffer(st, c, m) ==
    IF c \in DOMAIN st.buffers /\ Contains(st.buffers[c], m)
    THEN [st EXCEPT !.buffers[c] = RemoveFirst(@, m)]
    ELSE st

\* Task.cancel() of a response task that is not done
cancel_task(st, t) == [st EXCEPT !.tasks[t].must_cancel = TRUE]

\* MessageQueue.cancel_response_task: the state afterwards
cancel_response_task(st, c) ==
    IF is_responding(st, c) THEN cancel_task(st, st.response_tasks[c]) ELSE st

\* a free response task slot
FreeTaskSlot(st) == CHOOSE t \in QTasks : st.tasks[t].pc = "free"
HasFreeTask(st) == \E t \in QTasks : st.tasks[t].pc = "free"

\* MessageQueue.add_response_task
add_response_task(st, c) ==
    LET t == FreeTaskSlot(st)
    IN  [st EXCEPT !.response_tasks = DictPut(@, c, t),
                   !.tasks[t] = [FreeTask EXCEPT !.pc = "created", !.ch = c],
                   !.ready = Append(@, <<"task", t>>)]

\* MessageQueue.remove_response_task
remove_response_task(st, c) == [st EXCEPT !.response_tasks = DictPop(@, c)]

\* a _done_callback that leaves the emptied queue in place
done_callback_keeping_queue(st, c) == remove_response_task(st, c)

\* MessageQueue._done_callback
done_callback(st, c) == remove_empty_queue(remove_response_task(st, c), c)

\* guaranteed_responses[c] leaves the dict: the handlers that hold the set keep it
DetachGuarantees(st, c) ==
    [st EXCEPT !.handlers = [h \in QHandlers |->
                                IF @[h].ch = c /\ @[h].gref = "live"
                                THEN [@[h] EXCEPT !.gref = "stale"] ELSE @[h]]]

\* the new guaranteed sets take the place of the old ones
SetGuarantees(st, c, guaranteed) ==
    IF c \in DOMAIN st.guaranteed /\ c \notin DOMAIN guaranteed
    THEN [DetachGuarantees(st, c) EXCEPT !.guaranteed = guaranteed]
    ELSE [st EXCEPT !.guaranteed = guaranteed]

\* the settings of DecideToRespond in this part
QDecideCfg ==
    [ignore_dms |-> FALSE, ignore_bots |-> FALSE, disable_unsolicited_replies |-> FALSE,
     cap |-> 0, table |-> time_vs_response_chance]

\* the handler returns (or an exception ends it)
Finish(st, h) == [st EXCEPT !.handlers[h] = IdleHandler]

\* process_messages, from the test that ends it: start a response task unless
\* one is responding or nothing is queued
pm_start(st, c, h) ==
    Finish(IF is_responding(st, c) \/ get_queue_length(st, c) = 0
           THEN st ELSE add_response_task(st, c), h)

\* process_messages after "await cancelled_task"
pm_after_cancel(st, c, h, cfg) ==
    LET m == st.handlers[h].msg
        live == st.handlers[h].gref = "live"
    IN  IF ~contains_message(st, c, m) THEN Finish(st, h)
        ELSE IF cfg.latest_only /\ get_queue_length(st, c) > 1
        THEN LET s1 == appendleft(clear(st, c), c, m)
             IN  pm_start(IF live /\ Cardinality(s1.guaranteed[c]) > 1
                          THEN [s1 EXCEPT !.guaranteed[c] =
                                    IF st.handlers[h].is_guaranteed THEN {m} ELSE {}]
                          ELSE s1, c, h)
        ELSE LET s1 == append(st, c, m)
             IN  pm_start(IF live THEN [s1 EXCEPT !.guaranteed[c] = @ \ {m}] ELSE s1, c, h)

\* a pm_skip that cancels the response task for an ignorable message too
pm_skip_ignorable_too(st, c, h, cfg, shapes) ==
    LET m == st.handlers[h].msg
    IN  IF cfg.skip /\ is_responding(st, c)
        THEN IF ~is_buffered(st, c, m) /\ ~contains_message(st, c, m)
             THEN Finish(st, h)
             ELSE LET t == st.response_tasks[c]
                      s1 == cancel_response_task(st, c)
                  IN  [s1 EXCEPT !.handlers[h].pc = "cancel_wait",
                                 !.tasks[t].waiters = Append(@, h)]
        ELSE pm_start(st, c, h)

\* process_messages from the skip_in_progress_responses test to the await
pm_skip(st, c, h, cfg, shapes) ==
    LET m == st.handlers[h].msg
    IN  IF cfg.skip /\ is_responding(st, c)
        THEN IF /\ ~st.handlers[h].is_guaranteed
                /\ should_ignore_message(QMessage(shapes, c, m), QDecideCfg)
             THEN Finish(st, h)
             ELSE IF ~is_buffered(st, c, m) /\ ~contains_message(st, c, m)
             THEN Finish(st, h)
             ELSE LET t == st.response_tasks[c]
                      s1 == cancel_response_task(st, c)
                  IN  [s1 EXCEPT !.handlers[h].pc = "cancel_wait",
                                 !.tasks[t].waiters = Append(@, h)]
        ELSE pm_start(st, c, h)

\* MessageQueue.buffer up to its await; the call returns False when a wait task
\* is running already
buffer(st, c, h) ==
    LET m == st.handlers[h].msg
        s1 == [st EXCEPT !.buffers =
                  DictPut(@, c, <<m>> \o (IF c \in DOMAIN @ THEN @[c] ELSE <<>>))]
    IN  IF ~is_buffering(s1, c)
        THEN [s1 EXCEPT !.wait_tasks = DictPut(@, c, h),
                        !.handlers[h].pc = "buffer_wait"]
        ELSE Finish(s1, h)

\* a buffer that takes the oldest message of the window
buffer_flush_oldest(st, c, cfg) ==
    LET s1 == [st EXCEPT !.wait_tasks = DictPop(@, c)]
    IN  IF c \in DOMAIN s1.buffers /\ s1.buffers[c] # <<>>
        THEN LET b == s1.buffers[c]
                 s2 == [s1 EXCEPT !.buffers = DictPop(@, c)]
             IN  IF cfg.latest_only THEN appendleft(s2, c, b[Len(b)])
                 ELSE extendleft(s2, c, b)
        ELSE s1

\* MessageQueue.buffer after its await: the buffer is flushed to the queue
buffer_flush(st, c, cfg) ==
    LET s1 == [st EXCEPT !.wait_tasks = DictPop(@, c)]
    IN  IF c \in DOMAIN s1.buffers /\ s1.buffers[c] # <<>>
        THEN LET b == s1.buffers[c]
                 s2 == [s1 EXCEPT !.buffers = DictPop(@, c)]
             IN  IF cfg.latest_only THEN appendleft(s2, c, Head(b))
                 ELSE extendleft(s2, c, b)
        ELSE s1

\* process_messages up to its first await, for handler h and message m
process_messages(st, c, h, m, cfg, shapes) ==
    LET is_guaranteed == m \in get_guarantees(st.guaranteed, c)
        s1 == [st EXCEPT !.handlers[h] =
                  [IdleHandler EXCEPT !.pc = "run", !.ch = c, !.msg = m,
                                      !.is_guaranteed = is_guaranteed,
                                      !.gref = IF c \in DOMAIN st.guaranteed
                                               THEN "live" ELSE "none"]]
    IN  IF ~is_guaranteed /\ is_panicking(s1, c) THEN Finish(s1, h)
        ELSE IF /\ cfg.accumulate
                /\ ~is_guaranteed
                /\ ~should_ignore_message(QMessage(shapes, c, m), QDecideCfg)
        THEN buffer(s1, c, h)
        ELSE pm_skip(appendleft(s1, c, m), c, h, cfg, shapes)

\* on_poke after calm_down
on_poke_calm(st, c, h, m, cfg, shapes) ==
    LET s1 == [st EXCEPT !.guaranteed = guarantee_response(@, c, m),
                         !.lmt = log_mention(@, GuildOf(c), c, 0)]
    IN  process_messages(s1, c, h, m, cfg, shapes)

\* on_poke up to its first await; calm_down cancels and awaits a running panic
on_poke(st, c, h, m, cfg, shapes) ==
    IF is_panicking(st, c)
    THEN LET p == st.panic_tasks[c]
         IN  [st EXCEPT !.panics[p].must_cancel = TRUE,
                        !.panics[p].waiters = Append(@, h),
                        !.handlers[h] = [IdleHandler EXCEPT !.pc = "calm_wait",
                                                            !.ch = c, !.msg = m]]
    ELSE on_poke_calm(st, c, h, m, cfg, shapes)

\* MessageQueue.panic and on_unpoke
FreePanicSlot(st) == CHOOSE p \in QPanics : st.panics[p].pc = "free"
HasFreePanic(st) == \E p \in QPanics : st.panics[p].pc = "free"

panic(st, c) ==
    IF is_panicking(st, c) THEN st
    ELSE LET p == FreePanicSlot(st)
         IN  [st EXCEPT !.panic_tasks = DictPut(@, c, p),
                        !.panics[p] = [FreePanic EXCEPT !.pc = "created", !.ch = c],
                        !.ready = Append(@, <<"panic", p>>)]

on_unpoke(st, c) == [panic(st, c) EXCEPT !.lmt = log_cooldown(@, GuildOf(c), c)]

\* on_message_delete
on_message_delete(st, c, m) ==
    LET s1 == unbuffer(st, c, m)
    IN  IF contains_message(s1, c, m) THEN remove(s1, c, m) ELSE s1

\* _send_text_response and the rest of _handle_response up to asyncio.wait():
\* the mention is logged, the text task is created, and an image task if img
send_text_response(st, c, t, img) ==
    [st EXCEPT !.lmt = IF st.tasks[t].summon THEN log_mention(@, GuildOf(c), c, 0) ELSE @,
               !.tasks[t].text = "run",
               !.tasks[t].image = IF img THEN "run" ELSE "none",
               !.tasks[t].pc = "wait"]

\* the response task returns or is cancelled
task_ends(st, t, cancelled) ==
    [st EXCEPT !.tasks[t].pc = "done", !.tasks[t].cancelled = cancelled,
               !.tasks[t].must_cancel = FALSE,
               !.ready = Append(@, <<"task_cb", t>>)]

\* _handle_response is left: the text task it leaves running is no longer awaited
leave_response(st, t) ==
    [st EXCEPT !.stray[st.tasks[t].ch] =
                    IF st.tasks[t].text \in {"run", "cancelling"} /\ @ < MaxStray
                    THEN @ + 1 ELSE @,
               !.tasks[t].text = "none", !.tasks[t].image = "none",
               !.tasks[t].cur = 0, !.tasks[t].summon = FALSE]

RECURSIVE process_message_queue(_, _, _, _, _, _)
\* the loop of _process_message_queue from its test to the next await, with
\* the draw r of random.random(); pre tells that _handle_response suspends
\* before the text task is created (try_session, the image descriptions)
process_message_queue(st, c, t, shapes, r, pre) ==
    LET Respond(s2) ==
            IF pre THEN [s2 EXCEPT !.tasks[t].pc = "presend"]
            ELSE send_text_response(s2, c, t, FALSE)
        Decided(m, res, s1) ==
            IF ~res.respond THEN process_message_queue(s1, c, t, shapes, r, pre)
            ELSE Respond([s1 EXCEPT !.tasks[t].cur = m, !.tasks[t].summon = res.direct])
        Evaluated(q, m, u, res) ==
            Decided(m, res, [SetGuarantees(st, c, res.guaranteed) EXCEPT
                                !.queues[c] = SubSeq(q, 1, Len(q) - 1),
                                !.lmt = IF res.asked THEN u.lmt ELSE @])
        Unsolicited(q, m, message, u) ==
            Evaluated(q, m, u, should_respond_to_message(st.guaranteed, message,
                                                         QDecideCfg, u.result))
        Popped(q, m, message) ==
            Unsolicited(q, m, message,
                        provide_unsolicited_response_in_channel(st.lmt, message,
                                                                QDecideCfg, r))
        Pop(q, m) == Popped(q, m, QMessage(shapes, c, m))
    IN  IF st.tasks[t].dq # "live" \/ st.queues[c] = <<>>
        THEN task_ends(SetGuarantees(st, c, purge_guarantees(st.guaranteed, c)), t, FALSE)
        ELSE Pop(st.queues[c], st.queues[c][Len(st.queues[c])])

\* the first step of _process_message_queue; a task cancelled before it never runs
task_start(st, c, t, shapes, r, pre) ==
    IF st.tasks[t].must_cancel THEN task_ends(st, t, TRUE)
    ELSE process_message_queue(
            [st EXCEPT !.tasks[t].dq = IF c \in DOMAIN st.queues THEN "live" ELSE "none"],
            c, t, shapes, r, pre)

\* the step after try_session() or the image descriptions: a cancelled task
\* ends there, another goes on to asyncio.wait()
task_presend(st, c, t, img) ==
    IF st.tasks[t].must_cancel THEN task_ends(st, t, TRUE)
    ELSE send_text_response(st, c, t, img)

\* the step after asyncio.wait() when the task was cancelled: without an image
\* task the text task is cancelled and awaited, with one nothing is
task_cancelled_in_wait(st, c, t, shapes, r, pre) ==
    LET s1 == [st EXCEPT !.tasks[t].must_cancel = FALSE]
    IN  IF s1.tasks[t].image = "none" /\ s1.tasks[t].text = "run"
        THEN [s1 EXCEPT !.tasks[t].text = "cancelling", !.tasks[t].pc = "cleanup"]
        ELSE process_message_queue(leave_response(s1, t), c, t, shapes, r, pre)

\* the step after asyncio.wait() returned: the first of the two tasks is done
task_after_wait(st, c, t, shapes, r, pre) ==
    process_message_queue(leave_response(st, t), c, t, shapes, r, pre)

\* the step after "await task" in the except block; a CancelledError raised
\* there is passed over
task_after_cleanup(st, c, t, shapes, r, pre) ==
    process_message_queue(leave_response([st EXCEPT !.tasks[t].must_cancel = FALSE], t),
                          c, t, shapes, r, pre)

\* the first step of _panic: a panic cancelled before it never runs, and
\* buffers.pop raises a KeyError when the channel has a wait task and no buffer
panic_start(st, c, p) ==
    IF st.panics[p].must_cancel
       \/ (is_buffering(st, c) /\ c \notin DOMAIN st.buffers)
    THEN [st EXCEPT !.panics[p].pc = "done", !.panics[p].failed = TRUE,
                    !.panics[p].must_cancel = FALSE,
                    !.ready = Append(@, <<"panic_cb", p>>)]
    ELSE LET s1 == IF is_buffering(st, c)
                   THEN [st EXCEPT !.buffers = DictPop(@, c)] ELSE st
             s2 == IF get_queue_length(s1, c) # 0 THEN clear(s1, c) ELSE s1
             s3 == cancel_response_task(s2, c)
         IN  [s3 EXCEPT !.panics[p].pc = "sleeping"]

(***************************************************************************)
(* The steps.                                                              *)
(***************************************************************************)
QCfgs == [accumulate : BOOLEAN, latest_only : BOOLEAN, skip : BOOLEAN]

FilterIdle ==
    /\ f_use = FALSE
    /\ f_userlike = FALSE
    /\ f_text = <<>>
    /\ f_out = [called |-> FALSE, text |-> <<>>, abort |-> FALSE]

DecideIdle ==
    /\ d_cfg = QDecideCfg
    /\ guaranteed_responses = EmptyDict
    /\ last_mention_times = EmptyDict
    /\ d_last = NoEvaluation
    /\ d_cool = {}

QueueIdle ==
    /\ q_msgs = [m \in QIds |-> "unset"]
    /\ next_id = 1
    /\ queues = EmptyDict
    /\ buffers = EmptyDict
    /\ wait_tasks = EmptyDict
    /\ response_tasks = EmptyDict
    /\ panic_tasks = EmptyDict
    /\ tasks = [t \in QTasks |-> FreeTask]
    /\ panics = [p \in QPanics |-> FreePanic]
    /\ handlers = [h \in QHandlers |-> IdleHandler]
    /\ stray = [c \in QChannels |-> 0]
    /\ ready = <<>>
    /\ urgent = <<>>
    /\ n_cmds = 0
    /\ q_flush = <<>>
    /\ q_busy = {}

MentionIdle ==
    /\ m_base = EmptyDict
    /\ m_calls = <<>>

\* one participant, no "?" or "!" at the end of the message, a draw of 0
NoArgs == [participants |-> 1, bang |-> FALSE, r |-> 0]

ChanceIdle ==
    /\ i_table = <<>>
    /\ i_elapsed = 0
    /\ i_args = NoArgs
    /\ i_out = [called |-> FALSE, n |-> 0, d |-> 1, raised |-> FALSE]

RepetitionIdle ==
    /\ r_cfg = [repetition_threshold |-> 0, similarity_threshold |-> 0]
    /\ repetition_count = EmptyDict
    /\ r_hist = EmptyDict
    /\ r_next = 1

\* the text task before it is created
NoText ==
    [pc |-> "none", must_cancel |-> FALSE, result |-> "none", try |-> 0,
     generating |-> FALSE, attempts |-> 0, errors |-> 0, failures |-> 0,
     successes |-> 0, stops |-> 0, cut |-> FALSE, gone |-> FALSE, sent |-> 0]

ResponseIdle ==
    /\ p_cfg = [mode |-> "string", retries |-> 0, can_abort |-> FALSE,
                repetition |-> FALSE, threads |-> FALSE]
    /\ p_queue = 0
    /\ p_task = [pc |-> "done", must_cancel |-> FALSE, result |-> "none",
                 waiter |-> "none"]
    /\ p_text = NoText
    /\ p_cancels = 0

\* no wait task yet: where it is, the queue length it read last, its start
\* time, the time its sleep ends, the additional messages that were buffered
\* when it last tested its loop
NoWait == [pc |-> "none", queue_length |-> 0, start_time |-> 0, wake |-> 0, seen |-> 0]

AccumulateIdle ==
    /\ a_cfg = [period |-> 1, extra |-> 0, latest_only |-> FALSE]
    /\ a_now = 0
    /\ a_queue = 0
    /\ a_buffer = 0
    /\ a_wait = NoWait

OthersIdle == MentionIdle /\ ChanceIdle /\ RepetitionIdle /\ ResponseIdle /\ AccumulateIdle

Init == FilterIdle /\ DecideIdle /\ QueueIdle /\ OthersIdle /\ q_cfg \in QCfgs

\* the slot of a handler that begins
FreeHandler(h) ==
    /\ handlers[h].pc = "idle"
    /\ \A k \in QHandlers : handlers[k].pc = "idle" => h <= k

\* the messages, pokes, unpokes and deletions a run is followed for
EventBudget == IF "events" \in DOMAIN q_cfg THEN q_cfg.events ELSE MaxEvents

QFrame == UNCHANGED <<fvars, d_cfg, d_last, d_cool, q_cfg, n_cmds, xvars>>
QStill == UNCHANGED <<q_msgs, next_id, urgent, q_flush, q_busy>>

\* one more poke, unpoke or deletion
Command ==
    /\ (next_id - 1) + n_cmds < EventBudget
    /\ n_cmds' = n_cmds + 1
    /\ UNCHANGED <<fvars, d_cfg, d_last, d_cool, q_cfg, xvars>>

\* on_message: a message arrives
Arrive(c, shape, h) ==
    /\ urgent = <<>>
    /\ next_id <= MaxMsgs
    /\ (next_id - 1) + n_cmds < EventBudget
    /\ FreeHandler(h)
    /\ HasFreeTask(QState)
    /\ q_msgs' = [q_msgs EXCEPT ![next_id] = shape]
    /\ next_id' = next_id + 1
    /\ QSet(process_messages(QState, c, h, next_id, q_cfg, q_msgs'))
    /\ q_busy' = IF is_responding(QState, c) THEN q_busy \cup {next_id} ELSE q_busy
    /\ UNCHANGED <<urgent, q_flush>>
    /\ QFrame

\* on_poke: a message that arrived earlier is poked
Poke(c, m, h) ==
    /\ urgent = <<>>
    /\ m < next_id
    /\ FreeHandler(h)
    /\ HasFreeTask(QState)
    /\ QSet(on_poke(QState, c, h, m, q_cfg, q_msgs))
    /\ QStill
    /\ Command

\* on_unpoke
Unpoke(c) ==
    /\ urgent = <<>>
    /\ is_panicking(QState, c) \/ HasFreePanic(QState)
    /\ QSet(on_unpoke(QState, c))
    /\ QStill
    /\ Command

\* on_message_delete of a buffered or queued message
Delete(c, m) ==
    /\ urgent = <<>>
    /\ \/ c \in DOMAIN buffers /\ Contains(buffers[c], m)
       \/ contains_message(QState, c, m)
    /\ QSet(on_message_delete(QState, c, m))
    /\ QStill
    /\ Command

\* _accumulate_messages returns: the window of handler h is over
WaitExpire(h) ==
    /\ urgent = <<>>
    /\ handlers[h].pc = "buffer_wait"
    /\ ~handlers[h].wait_done
    /\ handlers' = [handlers EXCEPT ![h].wait_done = TRUE]
    /\ UNCHANGED <<q_msgs, next_id, queues, buffers, wait_tasks, response_tasks,
                   panic_tasks, tasks, panics, ready, stray, urgent, q_flush, q_busy,
                   guaranteed_responses, last_mention_times>>
    /\ QFrame

\* the handler awaiting the wait task goes on: flush, then the rest of
\* process_messages
BufferResume(h) ==
    /\ urgent = <<>>
    /\ handlers[h].pc = "buffer_wait"
    /\ handlers[h].wait_done
    /\ HasFreeTask(QState)
    /\ LET c == handlers[h].ch
           s1 == buffer_flush(QState, c, q_cfg)
       IN  QSet(pm_skip([s1 EXCEPT !.handlers[h].pc = "run",
                                   !.handlers[h].wait_done = FALSE],
                        c, h, q_cfg, q_msgs))
    /\ q_flush' = IF handlers[h].ch \in DOMAIN buffers /\ buffers[handlers[h].ch] # <<>>
                  THEN buffers[handlers[h].ch] ELSE q_flush
    /\ UNCHANGED <<q_msgs, next_id, urgent, q_busy>>
    /\ QFrame

\* the first step of a response task
TaskStart(t) ==
    /\ urgent = <<>>
    /\ ready # <<>> /\ Head(ready) = <<"task", t>>
    /\ \E r \in Draws, pre \in BOOLEAN :
            QSet(task_start([QState EXCEPT !.ready = Tail(@)], tasks[t].ch, t, q_msgs,
                            r, pre))
    /\ QStill /\ QFrame

\* try_session() or the image descriptions return to the response task
TaskPresend(t) ==
    /\ urgent = <<>>
    /\ tasks[t].pc = "presend"
    /\ \E img \in BOOLEAN : QSet(task_presend(QState, tasks[t].ch, t, img))
    /\ QStill /\ QFrame

\* the text task of the response in progress finishes, or ends cancelled
TextDone(t) ==
    /\ urgent = <<>>
    /\ tasks[t].text \in {"run", "cancelling"}
    /\ QSet([QState EXCEPT !.tasks[t].text = "done"])
    /\ QStill /\ QFrame

\* the image task of the response in progress finishes
ImageDone(t) ==
    /\ urgent = <<>>
    /\ tasks[t].image = "run"
    /\ QSet([QState EXCEPT !.tasks[t].image = "done"])
    /\ QStill /\ QFrame

\* a text task that is awaited no longer finishes
StrayDone(c) ==
    /\ urgent = <<>>
    /\ stray[c] > 0
    /\ QSet([QState EXCEPT !.stray[c] = @ - 1])
    /\ QStill /\ QFrame

\* asyncio.wait(FIRST_COMPLETED) returns to the response task
TaskAfterWait(t) ==
    /\ urgent = <<>>
    /\ tasks[t].pc = "wait"
    /\ ~tasks[t].must_cancel
    /\ tasks[t].text = "done" \/ tasks[t].image = "done"
    /\ \E r \in Draws, pre \in BOOLEAN :
            QSet(task_after_wait(QState, tasks[t].ch, t, q_msgs, r, pre))
    /\ QStill /\ QFrame

\* the CancelledError reaches the response task in asyncio.wait()
TaskCancelledInWait(t) ==
    /\ urgent = <<>>
    /\ tasks[t].pc = "wait"
    /\ tasks[t].must_cancel
    /\ \E r \in Draws, pre \in BOOLEAN :
            QSet(task_cancelled_in_wait(QState, tasks[t].ch, t, q_msgs, r, pre))
    /\ QStill /\ QFrame

\* the cancelled text task has ended and the response task goes on
TaskAfterCleanup(t) ==
    /\ urgent = <<>>
    /\ tasks[t].pc = "cleanup"
    /\ tasks[t].text = "done"
    /\ \E r \in Draws, pre \in BOOLEAN :
            QSet(task_after_cleanup(QState, tasks[t].ch, t, q_msgs, r, pre))
    /\ QStill /\ QFrame

\* the done-callback of a response task; the handlers awaiting the task are
\* resumed next, with its CancelledError if it ended cancelled
TaskDoneCallback(t) ==
    /\ urgent = <<>>
    /\ ready # <<>> /\ Head(ready) = <<"task_cb", t>>
    /\ LET s1 == done_callback([QState EXCEPT !.ready = Tail(@)], tasks[t].ch)
           w == tasks[t].waiters
       IN  /\ QSet([s1 EXCEPT
                      !.tasks[t] = FreeTask,
                      !.handlers = [h \in QHandlers |->
                                      IF Contains(w, h)
                                      THEN [@[h] EXCEPT !.failed = tasks[t].cancelled]
                                      ELSE @[h]]])
           /\ urgent' = w
    /\ UNCHANGED <<q_msgs, next_id, q_flush, q_busy>>
    /\ QFrame

\* a handler that awaited the cancelled response task goes on
CancelResume(h) ==
    /\ urgent # <<>>
    /\ Head(urgent) = h
    /\ handlers[h].pc = "cancel_wait"
    /\ HasFreeTask(QState)
    /\ QSet(IF handlers[h].failed THEN Finish(QState, h)
            ELSE pm_after_cancel(QState, handlers[h].ch, h, q_cfg))
    /\ urgent' = Tail(urgent)
    /\ UNCHANGED <<q_msgs, next_id, q_flush, q_busy>>
    /\ QFrame

\* the first step of a panic task
PanicStart(p) ==
    /\ urgent = <<>>
    /\ ready # <<>> /\ Head(ready) = <<"panic", p>>
    /\ QSet(panic_start([QState EXCEPT !.ready = Tail(@)], panics[p].ch, p))
    /\ QStill /\ QFrame

\* asyncio.sleep(panic_duration) returns, or the CancelledError of calm_down
\* reaches the panic task and is caught
PanicWake(p) ==
    /\ urgent = <<>>
    /\ panics[p].pc = "sleeping"
    /\ QSet([QState EXCEPT !.panics[p].pc = "done", !.panics[p].must_cancel = FALSE,
                           !.ready = Append(@, <<"panic_cb", p>>)])
    /\ QStill /\ QFrame

\* the done-callback of a panic task; the on_poke calls awaiting the task are
\* resumed next, with its exception if it ended with one
PanicDoneCallback(p) ==
    /\ urgent = <<>>
    /\ ready # <<>> /\ Head(ready) = <<"panic_cb", p>>
    /\ LET w == panics[p].waiters
       IN  /\ QSet([QState EXCEPT
                      !.ready = Tail(@),
                      !.panic_tasks = DictPop(@, panics[p].ch),
                      !.panics[p] = FreePanic,
                      !.handlers = [h \in QHandlers |->
                                      IF Contains(w, h)
                                      THEN [@[h] EXCEPT !.failed = panics[p].failed]
                                      ELSE @[h]]])
           /\ urgent' = w
    /\ UNCHANGED <<q_msgs, next_id, q_flush, q_busy>>
    /\ QFrame

\* an on_poke that awaited the panic task goes on
CalmResume(h) ==
    /\ urgent # <<>>
    /\ Head(urgent) = h
    /\ handlers[h].pc = "calm_wait"
    /\ HasFreeTask(QState)
    /\ QSet(IF handlers[h].failed THEN Finish(QState, h)
            ELSE on_poke_calm(QState, handlers[h].ch, h, handlers[h].msg, q_cfg, q_msgs))
    /\ urgent' = Tail(urgent)
    /\ UNCHANGED <<q_msgs, next_id, q_flush, q_busy>>
    /\ QFrame

Next ==
    \/ \E c \in QChannels, shape \in QShapes, h \in QHandlers : Arrive(c, shape, h)
    \/ \E c \in QChannels, m \in QIds, h \in QHandlers : Poke(c, m, h)
    \/ \E c \in QChannels : Unpoke(c)
    \/ \E c \in QChannels, m \in QIds : Delete(c, m)
    \/ \E h \in QHandlers : WaitExpire(h)
    \/ \E h \in QHandlers : BufferResume(h)
    \/ \E t \in QTasks : TaskStart(t)
    \/ \E t \in QTasks : TaskPresend(t)
    \/ \E t \in QTasks : TextDone(t)
    \/ \E t \in QTasks : ImageDone(t)
    \/ \E c \in QChannels : StrayDone(c)
    \/ \E t \in QTasks : TaskAfterWait(t)
    \/ \E t \in QTasks : TaskCancelledInWait(t)
    \/ \E t \in QTasks : TaskAfterCleanup(t)
    \/ \E t \in QTasks : TaskDoneCallback(t)
    \/ \E h \in QHandlers : CancelResume(h)
    \/ \E p \in QPanics : PanicStart(p)
    \/ \E p \in QPanics : PanicWake(p)
    \/ \E p \in QPanics : PanicDoneCallback(p)
    \/ \E h \in QHandlers : CalmResume(h)

Spec == Init /\ [][Next]_vars

(***************************************************************************)
(* Properties of the queue and the response tasks.                         *)
(***************************************************************************)
\* the response tasks of a channel that have run their first step and have not finished
StartedTasks(c) == {t \in QTasks : tasks[t].ch = c /\ tasks[t].pc \in {"presend", "wait", "cleanup"}}

\* C1: in every reachable state a channel has at most one response task
\* (_process_message_queue) that has been started and has not finished.
C1_SingleFlight == \A c \in QChannels : Cardinality(StartedTasks(c)) <= 1

\* the text tasks (_send_text_response_in_channel) of a channel that are running
Generations(c) ==
    stray[c] + Cardinality({t \in QTasks : tasks[t].ch = c
                                            /\ tasks[t].text \in {"run", "cancelling"}})

\* C2: in every reachable state at most one text generation task is running in
\* a channel: a response task has not gone on to the next message while the
\* text task it started for an earlier one still runs.
C2_OneGeneration == \A c \in QChannels : Generations(c) <= 1

\* the step takes the process_messages call of a message that is not ignorable and
\* is still there past the accumulation: it arrives outside a panic with no
\* accumulation period set, or it arrived while the response task was active
\* and the window its handler waited for ends with it in the buffer
PastAccumulation(c) ==
    \/ /\ next_id' = next_id + 1
       /\ ~q_cfg.accumulate
       /\ ~is_panicking(QState, c)
       /\ q_msgs'[next_id] # "ignored"
    \/ \E h \in QHandlers :
          /\ handlers[h].pc = "buffer_wait"
          /\ handlers[h].ch = c
          /\ handlers'[h].pc # "buffer_wait"
          /\ c \in DOMAIN buffers
          /\ Contains(buffers[c], handlers[h].msg)
          /\ handlers[h].msg \in q_busy

\* C3: with skip_in_progress_responses, every step in which the handler of a
\* message that is not ignorable gets past the accumulation while the channel's
\* response task is in the middle of a response cancels that task, whatever the
\* other settings.
C3_SkipCancels ==
    [][\A c \in QChannels :
          (/\ q_cfg.skip
           /\ is_responding(QState, c)
           /\ tasks[response_tasks[c]].pc \in {"presend", "wait"}
           /\ PastAccumulation(c))
              => tasks'[response_tasks[c]].must_cancel]_vars

\* something of the channel is still to run: a response task or its
\* done-callback, a handler, a panic task
InFlight(c) ==
    \/ \E t \in QTasks : tasks[t].ch = c /\ tasks[t].pc # "free"
    \/ \E h \in QHandlers : handlers[h].ch = c /\ handlers[h].pc # "idle"
    \/ \E p \in QPanics : panics[p].ch = c /\ panics[p].pc # "free"

\* C4: in every reachable state a channel with a queued message has something
\* in flight that goes on to drain it; no message is left queued with no
\* response task, no handler and no panic.
C4_NoStrandedMessage ==
    \A c \in QChannels : get_queue_length(QState, c) > 0 => InFlight(c)

\* the greatest of the message ids of a non-empty sequence: the last to arrive
Newest(s) == CHOOSE m \in {s[i] : i \in 1..Len(s)} : \A i \in 1..Len(s) : s[i] <= m

\* C5: with respond_to_latest_only, every step that ends an accumulation window
\* with messages in the buffer puts the newest of them at the left of the queue
\* and nothing else, and the buffer is gone: the older ones are in neither.
C5_LatestOnlyFlush ==
    [][\A h \in QHandlers :
          LET c == handlers[h].ch
          IN  (/\ q_cfg.latest_only
               /\ handlers[h].pc = "buffer_wait"
               /\ handlers'[h].pc # "buffer_wait"
               /\ c \in DOMAIN buffers
               /\ buffers[c] # <<>>)
              => /\ c \notin DOMAIN buffers'
                 /\ c \in DOMAIN queues'
                 /\ queues'[c] = <<Newest(buffers[c])>>
                                    \o (IF c \in DOMAIN queues THEN queues[c] ELSE <<>>)]_vars

\* a window of three messages was flushed with respond_to_latest_only: the
\* newest is queued, the two older ones are neither queued nor buffered
C5_Witness ==
    /\ q_cfg.latest_only
    /\ Len(q_flush) = 3
    /\ \E c \in QChannels :
          /\ c \in DOMAIN queues
          /\ queues[c] = <<Newest(q_flush)>>
          /\ c \notin DOMAIN buffers

\* C6: without respond_to_latest_only, and with no poke, unpoke, deletion or
\* skip_in_progress_responses to reorder the queue, messages are evaluated oldest
\* first: while a response task answers a message no older message waits in
\* the queue.
C6_OldestFirst ==
    (~q_cfg.latest_only /\ ~q_cfg.skip /\ n_cmds = 0)
        => \A t \in QTasks, c \in QChannels :
              (tasks[t].ch = c /\ tasks[t].cur # 0 /\ c \in DOMAIN queues)
                  => \A i \in 1..Len(queues[c]) : queues[c][i] > tasks[t].cur

\* the step is the first step of the panic task p and it reaches asyncio.sleep
PanicBegins(p) == panics[p].pc = "created" /\ panics'[p].pc = "sleeping"

\* C11: every step in which a panic task of a channel reaches its suppression
\* wait leaves the channel with nothing in its buffer, nothing in its queue and
\* no response task that is active and not cancelled.
C11_PanicClears ==
    [][\A p \in QPanics :
          PanicBegins(p) =>
              LET c == panics[p].ch
              IN  /\ c \in DOMAIN buffers' => buffers'[c] = <<>>
                  /\ c \in DOMAIN queues' => queues'[c] = <<>>
                  /\ (c \in DOMAIN response_tasks'
                        /\ tasks'[response_tasks'[c]].pc # "done")
                       => tasks'[response_tasks'[c]].must_cancel]_vars

\* the messages in the buffer and in the queue of a channel
Held(bs, qs, c) ==
    (IF c \in DOMAIN bs THEN {bs[c][i] : i \in 1..Len(bs[c])} ELSE {})
        \cup (IF c \in DOMAIN qs THEN {qs[c][i] : i \in 1..Len(qs[c])} ELSE {})

\* the panic task of the channel is in its suppression wait and calm_down has
\* not cancelled it
Suppressed(c) ==
    /\ is_panicking(QState, c)
    /\ panics[panic_tasks[c]].pc = "sleeping"
    /\ ~panics[panic_tasks[c]].must_cancel

\* C12: no step taken while a channel's panic waits and is not cancelled adds a
\* message to the channel's buffer or queue or creates a response task for the
\* channel, the steps of the handlers suspended when the panic began included.
C12_PanicSuppresses ==
    [][\A c \in QChannels :
          Suppressed(c) =>
              /\ Held(buffers', queues', c) \subseteq Held(buffers, queues, c)
              /\ \A t \in QTasks :
                    (tasks[t].pc = "free" /\ tasks'[t].pc # "free") => tasks'[t].ch # c]_vars

\* no response task of the channel exists: each one created has finished and its
\* done-callback has run
NoTask(c) == \A t \in QTasks : tasks[t].pc # "free" => tasks[t].ch # c

\* C13: in every reachable state where the response tasks of a channel have
\* finished, their done-callbacks have run and no message is queued for the
\* channel, queues and response_tasks have no entry for the channel.
C13_EagerCollection ==
    \A c \in QChannels :
        (NoTask(c) /\ get_queue_length(QState, c) = 0)
            => (c \notin DOMAIN queues /\ c \notin DOMAIN response_tasks)

\* a response task answered a message that mentions the bot (only a response
\* logs a mention when nothing is poked) and is gone with its queue and its entry
C13_Witness ==
    /\ n_cmds = 0
    /\ \E c \in QChannels :
          /\ GuildOf(c) \in DOMAIN last_mention_times
          /\ NoTask(c)
          /\ c \notin DOMAIN queues
          /\ c \notin DOMAIN response_tasks

\* nothing of the channel is left to run and its queue is empty
Idle(c) == ~InFlight(c) /\ get_queue_length(QState, c) = 0 /\ ready = <<>>

\* C14: in every reachable state where a channel is idle with an empty queue,
\* whichever way its last queue-processing pass ended, guaranteed_responses has
\* no entry for the channel.
C14_NoLeakedGuarantee ==
    \A c \in QChannels : Idle(c) => c \notin DOMAIN guaranteed_responses

(***************************************************************************)
(* The filter on its own, and the decision engine on its own.              *)
(***************************************************************************)
QCfgIdle == q_cfg = [accumulate |-> FALSE, latest_only |-> FALSE, skip |-> FALSE]

InitFilter == FilterInit /\ DecideIdle /\ QueueIdle /\ OthersIdle /\ QCfgIdle

SpecFilter == InitFilter /\ [][FilterCall]_vars

InitDecide == FilterIdle /\ DecideInit /\ QueueIdle /\ OthersIdle /\ QCfgIdle

SpecDecide == InitDecide /\ [][DecideNext]_vars

RECURSIVE KeptBeforeAbort(_, _, _)
\* what C7 says filter() returns: the good lines so far, and when a line sets
\* abort_response that line's leading whitespace and the sentences kept of it
KeptBeforeAbort(lines, good_lines, userlike) ==
    IF lines = <<>> THEN Concat(good_lines)
    ELSE LET line == Head(lines)
         IN  IF \A i \in 1..Len(line) : line[i] = "nl"
             THEN KeptBeforeAbort(Tail(lines), Append(good_lines, line), userlike)
             ELSE LET r == FilterSentences(segment(line), <<>>, userlike)
                      good_line == LeadingWhitespace(line) \o Concat(r.good)
                      kept == IF good_line # <<>> THEN Append(good_lines, good_line)
                              ELSE good_lines
                  IN  IF r.abort THEN Concat(kept)
                      ELSE KeptBeforeAbort(Tail(lines), kept, userlike)

\* C7: when filter() aborts, the text it returns is the text kept up to there:
\* the earlier lines, the earlier sentences of the line, and the part of the
\* sentence before a stop marker.
C7_PrefixKept ==
    (f_out.called /\ f_use /\ f_out.abort)
        => f_out.text = KeptBeforeAbort(split(f_text), <<>>, f_userlike)

\* C8: with use_filter off, filter() returns the text unchanged and does not abort.
C8_DisabledIdentity ==
    (f_out.called /\ ~f_use) => (f_out.text = f_text /\ ~f_out.abort)

\* the filter was off and the text held a stop marker, a speaker-name prefix
\* and the bot's own prefix
C8_Witness ==
    /\ f_out.called
    /\ ~f_use
    /\ f_text # <<>> /\ Head(f_text) = "U"
    /\ \E i \in 1..Len(f_text) : f_text[i] = "M1"
    /\ \E i \in 1..Len(f_text) : f_text[i] = "B"

\* the step is an evaluation by should_respond_to_message
Evaluates == d_last'.seq # d_last.seq

\* what the rules after the guarantee test decide for the evaluation d records
NormalRules(d) == ~d.ignorable /\ (d.is_direct \/ d.unsolicited = "yes")

\* C9: evaluating a message that is in its channel's guaranteed set answers
\* respond and takes the message out of the set, dropping the set when it is
\* empty and leaving the other guarantees; evaluating a message that is not in
\* the set changes no guarantee and decides by the normal rules.
C9_GuaranteeConsumed ==
    [][Evaluates =>
          LET c == d_last'.channel_id
              m == d_last'.message_id
              before == get_guarantees(guaranteed_responses, c)
          IN  /\ \A k \in DOMAIN guaranteed_responses \ {c} :
                    /\ k \in DOMAIN guaranteed_responses'
                    /\ guaranteed_responses'[k] = guaranteed_responses[k]
              /\ DOMAIN guaranteed_responses' \subseteq DOMAIN guaranteed_responses
              /\ IF m \in before
                 THEN /\ d_last'.respond
                      /\ get_guarantees(guaranteed_responses', c) = before \ {m}
                      /\ (before = {m}) => c \notin DOMAIN guaranteed_responses'
                 ELSE /\ guaranteed_responses' = guaranteed_responses
                      /\ d_last'.respond = NormalRules(d_last')]_vars

\* a guaranteed message the bot would otherwise ignore was evaluated: it got a
\* response, it is out of the set and another guarantee of the channel is still in
C9_Witness ==
    /\ d_last.guaranteed
    /\ d_last.ignorable
    /\ d_last.respond
    /\ d_last.message_id \notin get_guarantees(guaranteed_responses, d_last.channel_id)
    /\ get_guarantees(guaranteed_responses, d_last.channel_id) # {}

MaxCalls == 2

\* the channels mentions are logged in: the guild's channels and the DM
MChannels == GuildChannels \cup {DmChannel}

\* the ChannelMessages time_since_last_mention is called with
MMessages ==
    {[channel_id |-> c, guild_id |-> GuildOf(c), send_timestamp |-> ts] :
        c \in GuildChannels, ts \in 0..MaxTime}

InitMention ==
    /\ d_cfg \in [ignore_dms : {FALSE}, ignore_bots : {FALSE},
                  disable_unsolicited_replies : {FALSE}, cap : {0, 1},
                  table : {time_vs_response_chance, ShortTable}]
    /\ guaranteed_responses = EmptyDict
    /\ last_mention_times = EmptyDict
    /\ d_last = NoEvaluation
    /\ d_cool = {}
    /\ MentionIdle
    /\ FilterIdle /\ QueueIdle /\ QCfgIdle /\ ChanceIdle /\ RepetitionIdle /\ ResponseIdle
    /\ AccumulateIdle

MFrame == UNCHANGED <<fvars, qvars, ivars, rvars, pvars, avars, d_cfg, guaranteed_responses, d_last, d_cool>>

\* decide_to_respond.log_mention(guild_id, channel_id, send_timestamp)
MLogMention(c, ts) ==
    /\ last_mention_times' = log_mention(last_mention_times, GuildOf(c), c, ts)
    /\ m_base' = last_mention_times'
    /\ m_calls' = <<>>
    /\ MFrame

\* decide_to_respond.log_cooldown(guild_id, channel_id)
MLogCooldown(c) ==
    /\ last_mention_times' = log_cooldown(last_mention_times, GuildOf(c), c)
    /\ last_mention_times' # last_mention_times
    /\ m_base' = last_mention_times'
    /\ m_calls' = <<>>
    /\ MFrame

\* decide_to_respond.time_since_last_mention(message)
MSince(message) ==
    LET r == time_since_last_mention(last_mention_times, message, d_cfg)
        call == [message |-> message, has |-> r.has, value |-> r.value, after |-> r.lmt]
    IN  /\ last_mention_times' = r.lmt
        /\ IF Len(m_calls) < MaxCalls
           THEN m_calls' = Append(m_calls, call) /\ m_base' = m_base
           ELSE m_calls' = <<call>> /\ m_base' = last_mention_times
        /\ MFrame

MentionNext ==
    \/ \E c \in MChannels, ts \in 0..MaxTime : MLogMention(c, ts)
    \/ \E c \in MChannels : MLogCooldown(c)
    \/ \E message \in MMessages : MSince(message)

SpecMention == InitMention /\ [][MentionNext]_vars

\* C15: two calls of time_since_last_mention in a row with the same message
\* return the same value, and the second leaves the tracker of every guild,
\* timestamps and cooldowns, as the first left it.
C15_PurgeIdempotent ==
    \A i \in 1..(Len(m_calls) - 1) :
        m_calls[i].message = m_calls[i + 1].message
            => /\ m_calls[i + 1].has = m_calls[i].has
               /\ m_calls[i + 1].value = m_calls[i].value
               /\ m_calls[i + 1].after = m_calls[i].after

\* time_since_last_mention was called twice in a row with the same message; the
\* first call purged something and both found a last mention
C15_Witness ==
    /\ Len(m_calls) = 2
    /\ m_calls[1].message = m_calls[2].message
    /\ m_calls[1].after # m_base
    /\ m_calls[1].has /\ m_calls[2].has

\* C16: when two messages were evaluated in a row from a tracker state, each
\* got the value time_since_last_mention gives it when the two are evaluated
\* from that state in the other order.
C16_OrderIndependent ==
    Len(m_calls) = 2 =>
        LET a == m_calls[1].message
            b == m_calls[2].message
            first == time_since_last_mention(m_base, b, d_cfg)
            second == time_since_last_mention(first.lmt, a, d_cfg)
        IN  /\ m_calls[2].has = first.has /\ m_calls[2].value = first.value
            /\ m_calls[1].has = second.has /\ m_calls[1].value = second.value

\* the channels of a guild's tracker whose mention is within cache_timeout of ts
Fresh(times, ts, cfg) ==
    {c \in DOMAIN times : times[c] >= ts - last_mention_cache_timeout(cfg.table)}

\* C17: after a time_since_last_mention call, with a cap N > 0 every guild
\* tracks at most N channels, the N most recently mentioned of those within
\* cache_timeout; with a cap of 0 every channel within cache_timeout is kept.
C17_ChannelCap ==
    \A i \in 1..Len(m_calls) :
        LET before == IF i = 1 THEN m_base ELSE m_calls[i - 1].after
            after == m_calls[i].after
            ts == m_calls[i].message.send_timestamp
        IN  \A g \in DOMAIN before :
                LET fresh == Fresh(before[g].times, ts, d_cfg)
                    kept == IF g \in DOMAIN after THEN DOMAIN after[g].times ELSE {}
                IN  IF d_cfg.cap = 0 THEN kept = fresh
                    ELSE /\ Cardinality(kept) <= d_cfg.cap
                         /\ kept \subseteq fresh
                         /\ \A c \in kept, x \in fresh \ kept :
                                before[g].times[x] <= before[g].times[c]
                         /\ Cardinality(kept) = d_cfg.cap \/ kept = fresh

(***************************************************************************)
(* calc_interpolated_response_chance on its own, for calibration tables as *)
(* the constructor leaves them: rows sorted by duration, nothing negative. *)
(* Chances are in percent and the result is the fraction n/d of a percent. *)
(***************************************************************************)
\* the longest time since the last mention
MaxElapsed == 180

IDurations == {0, 60, 180}
IChances == {0, 50, 90}
IRows == [duration : IDurations, chance : IChances]

\* the tables of one or two rows with ascending durations
ITables ==
    {<<r>> : r \in IRows}
        \cup {t \in {<<r1, r2>> : r1 \in IRows, r2 \in IRows} : t[1].duration < t[2].duration}

InitChance ==
    /\ i_table \in ITables
    /\ i_elapsed \in 0..MaxElapsed
    /\ i_args = NoArgs
    /\ i_out = [called |-> FALSE, n |-> 0, d |-> 1, raised |-> FALSE]
    /\ FilterIdle /\ DecideIdle /\ QueueIdle /\ QCfgIdle /\ MentionIdle /\ RepetitionIdle
    /\ ResponseIdle /\ AccumulateIdle

\* one call of calc_interpolated_response_chance
ChanceCall ==
    /\ ~i_out.called
    /\ LET r == calc_interpolated_response_chance(i_elapsed, i_table)
       IN  i_out' = [called |-> TRUE, n |-> r.n, d |-> r.d, raised |-> r.raised]
    /\ UNCHANGED <<i_table, i_elapsed, i_args, fvars, dvars, qvars, mvars, rvars, pvars, avars>>

SpecChance == InitChance /\ [][ChanceCall]_vars

\* C20: for a table with ascending thresholds and an elapsed time e >= 0 the
\* call returns the first row's chance when e is at or below the first
\* threshold, and c0 + (c1 - c0) * (e - d0) / (d1 - d0) when e lies between the
\* consecutive thresholds d0 and d1.
C20_Interpolation ==
    i_out.called =>
        /\ ~i_out.raised
        /\ i_elapsed <= i_table[1].duration => i_out.n = i_table[1].chance * i_out.d
        /\ \A i \in 1..(Len(i_table) - 1) :
              LET d0 == i_table[i].duration
                  c0 == i_table[i].chance
                  d1 == i_table[i + 1].duration
                  c1 == i_table[i + 1].chance
              IN  (d0 <= i_elapsed /\ i_elapsed <= d1)
                    => i_out.n * (d1 - d0)
                          = i_out.d * (c0 * (d1 - d0) + (c1 - c0) * (i_elapsed - d0))

(***************************************************************************)
(* RepetitionTracker.                                                      *)
(*                                                                         *)
(* A text is a sequence of the characters "sp" (a space), "a", "A" and     *)
(* "b".  repetition_count maps a channel to the record                    *)
(*   last_message, throttle_message_id, repetition_count                   *)
(* and r_hist keeps, per channel, the posts logged since the channel's     *)
(* entry was last cleared: the canonical text, the message id and the      *)
(* score fuzz.token_set_ratio gave for it, in percent.  The score comes    *)
(* from a library and is an input of log_message here; it is 0 where the   *)
(* library is not asked, and for an empty string.                          *)
(***************************************************************************)
\* the longest text posted
MaxText == 2
\* the number of posts logged
MaxPosts == 3

RChars == {"sp", "a", "A", "b"}
RTexts == UNION {[1..n -> RChars] : n \in 0..MaxText}
RScores == {0, 100}
RChannels == {1, 2}
RCfgs == [repetition_threshold : 0..2, similarity_threshold : {0, 80}]

RECURSIVE LStrip(_)
LStrip(s) == IF s # <<>> /\ s[1] = "sp" THEN LStrip(Tail(s)) ELSE s

\* str.lower()
lower(s) == [i \in 1..Len(s) |-> IF s[i] = "A" THEN "a" ELSE s[i]]

\* RepetitionTracker.make_canonical
make_canonical(content) == lower(LStrip(RStrip(content)))

\* the reading of the threshold as a number of posts
should_throttle_by_posts(cfg, count) ==
    IF count = 0 \/ cfg.repetition_threshold = 0 THEN FALSE
    ELSE count + 1 >= cfg.repetition_threshold

\* RepetitionTracker.should_throttle
should_throttle(cfg, count) ==
    IF count = 0 \/ cfg.repetition_threshold = 0 THEN FALSE
    ELSE count >= cfg.repetition_threshold

\* the channel's entry, or the default of the dict.get
RepetitionEntry(rc, channel_id) ==
    IF channel_id \in DOMAIN rc THEN rc[channel_id]
    ELSE [last_message |-> <<>>, throttle_message_id |-> 0, repetition_count |-> 0]

\* RepetitionTracker.get_throttle_message_id
get_throttle_message_id(cfg, rc, channel_id) ==
    LET e == RepetitionEntry(rc, channel_id)
    IN  IF should_throttle(cfg, e.repetition_count) THEN e.throttle_message_id ELSE 0

\* RepetitionTracker.clear_throttle_message_id
clear_throttle_message_id(rc, channel_id) == DictPop(rc, channel_id)

\* RepetitionTracker.log_message of a message with this body text and id,
\* where score is what fuzz.token_set_ratio returns if it is asked
log_message(cfg, rc, channel_id, body_text, message_id, score) ==
    LET message_text == make_canonical(body_text)
        e == RepetitionEntry(rc, channel_id)
        repetition_found ==
            IF e.last_message = message_text THEN TRUE
            ELSE cfg.similarity_threshold # 0 /\ score >= cfg.similarity_threshold
        count == IF repetition_found THEN e.repetition_count + 1 ELSE 0
    IN  DictPut(rc, channel_id,
                [last_message |-> message_text,
                 throttle_message_id |-> IF should_throttle(cfg, count)
                                         THEN message_id
                                         ELSE e.throttle_message_id,
                 repetition_count |-> count])

InitRepetition ==
    /\ r_cfg \in RCfgs
    /\ repetition_count = EmptyDict
    /\ r_hist = EmptyDict
    /\ r_next = 1
    /\ FilterIdle /\ DecideIdle /\ QueueIdle /\ QCfgIdle /\ MentionIdle /\ ChanceIdle
    /\ ResponseIdle /\ AccumulateIdle

RFrame == UNCHANGED <<r_cfg, fvars, dvars, qvars, mvars, ivars, pvars, avars>>

\* the posts logged for the channel since its entry was cleared
RPosts(c) == IF c \in DOMAIN r_hist THEN r_hist[c] ELSE <<>>

\* the bot posts a message in channel c and logs it
RLog(c, text, score) ==
    /\ r_next <= MaxPosts
    /\ (\/ r_cfg.similarity_threshold = 0
        \/ make_canonical(text) = <<>>
        \/ RepetitionEntry(repetition_count, c).last_message = <<>>) => score = 0
    /\ repetition_count' = log_message(r_cfg, repetition_count, c, text, r_next, score)
    /\ r_hist' = DictPut(r_hist, c,
                         Append(RPosts(c), [text |-> make_canonical(text),
                                            id |-> r_next, score |-> score]))
    /\ r_next' = r_next + 1
    /\ RFrame

\* clear_throttle_message_id(c) on a channel that has an entry
RClear(c) ==
    /\ c \in DOMAIN repetition_count
    /\ repetition_count' = clear_throttle_message_id(repetition_count, c)
    /\ r_hist' = DictPop(r_hist, c)
    /\ UNCHANGED r_next
    /\ RFrame

RepetitionNext ==
    \/ \E c \in RChannels, text \in RTexts, score \in RScores : RLog(c, text, score)
    \/ \E c \in RChannels : RClear(c)

SpecRepetition == InitRepetition /\ [][RepetitionNext]_vars

\* the i-th post of h repeats the one before it: there is one and its canonical
\* text is the same, or the similarity check is on and the score reaches it
IsRepeat(h, i) ==
    \/ i > 1 /\ h[i].text = h[i - 1].text
    \/ r_cfg.similarity_threshold # 0 /\ h[i].score >= r_cfg.similarity_threshold

RECURSIVE Streak(_, _)
\* the number of consecutive repeats that end with the i-th post of h
Streak(h, i) == IF i = 0 \/ ~IsRepeat(h, i) THEN 0 ELSE 1 + Streak(h, i - 1)

\* get_throttle_message_id(c) as the program would return it now
Throttle(c) == get_throttle_message_id(r_cfg, repetition_count, c)

\* the latest post in the channel is the k-th one in a row with the same text,
\* and no more than that
NthPost(h, k) ==
    /\ Len(h) >= k
    /\ \A i \in (Len(h) - k + 1)..Len(h) : h[i].text = h[Len(h)].text
    /\ Len(h) > k => h[Len(h) - k].text # h[Len(h)].text

\* C18 as stated: with repetition_threshold = 2, get_throttle_message_id returns
\* 0 after the first post of a text in a channel and the id of the 2nd message
\* after the 2nd post of the same canonical text.
C18_SecondPostThrottles ==
    \A c \in RChannels :
        LET h == RPosts(c)
        IN  r_cfg.repetition_threshold = 2 =>
                /\ NthPost(h, 1) => Throttle(c) = 0
                /\ NthPost(h, 2) => Throttle(c) = h[Len(h)].id

\* C18, amended: with repetition_threshold = 2 the first post in a channel
\* leaves get_throttle_message_id at 0; with the similarity check off, a post
\* whose text differs from the one before leaves it at 0 and so does the 2nd
\* post of a text, except that the 2nd post of an empty text in a channel
\* without earlier posts returns the id of that 2nd message; the 3rd post in a
\* row of the same text returns the id of that 3rd message.
C18_ThirdPostThrottles ==
    \A c \in RChannels :
        LET h == RPosts(c)
            n == Len(h)
        IN  r_cfg.repetition_threshold = 2 =>
                /\ n = 1 => Throttle(c) = 0
                /\ (r_cfg.similarity_threshold = 0 /\ n >= 2 /\ NthPost(h, 1))
                      => Throttle(c) = 0
                /\ (r_cfg.similarity_threshold = 0 /\ NthPost(h, 2))
                      => Throttle(c) = IF n = 2 /\ h[n].text = <<>> THEN h[n].id ELSE 0
                /\ (n >= 3 /\ h[n].text = h[n - 1].text /\ h[n - 1].text = h[n - 2].text)
                      => Throttle(c) = h[n].id

\* the same non-empty text was posted three times in a row and the third
\* post's id is the throttle id
C18_Witness ==
    \E c \in RChannels :
        /\ r_cfg = [repetition_threshold |-> 2, similarity_threshold |-> 0]
        /\ Len(RPosts(c)) = 3
        /\ NthPost(RPosts(c), 3)
        /\ RPosts(c)[3].text # <<>>
        /\ Throttle(c) = RPosts(c)[3].id

RowBefore(r1, r2) ==
    \/ r1.duration < r2.duration
    \/ r1.duration = r2.duration /\ r1.chance <= r2.chance

RECURSIVE InsertRow(_, _)
\* list.sort() after an append to a sorted list
InsertRow(table, row) ==
    IF table = <<>> THEN <<row>>
    ELSE IF RowBefore(row, table[1]) THEN <<row>> \o table
    ELSE <<table[1]>> \o InsertRow(Tail(table), row)

RECURSIVE ParseTable(_, _)
\* the loop over the rows of the setting, from the table built so far
ParseTable(setting, table) ==
    IF setting = <<>> THEN table
    ELSE ParseTable(Tail(setting), InsertRow(InsertRow(table, setting[1]), setting[1]))

\* the settings: one or two rows in any order, repeats included
ISettings == {<<r>> : r \in IRows} \cup {<<r1, r2>> : r1 \in IRows, r2 \in IRows}

InitConstructed ==
    /\ i_table \in {ParseTable(setting, <<>>) : setting \in ISettings}
    /\ i_elapsed \in 0..MaxElapsed
    /\ i_args = NoArgs
    /\ i_out = [called |-> FALSE, n |-> 0, d |-> 1, raised |-> FALSE]
    /\ FilterIdle /\ DecideIdle /\ QueueIdle /\ QCfgIdle /\ MentionIdle /\ RepetitionIdle
    /\ ResponseIdle /\ AccumulateIdle

SpecConstructed == InitConstructed /\ [][ChanceCall]_vars

\* C21: for every table the constructor accepts and every elapsed time >= 0,
\* calc_interpolated_response_chance completes without dividing by zero.
C21_NoDivisionByZero == i_out.called => ~i_out.raised

(***************************************************************************)
(* The decision engine under every setting of ignore_bots and              *)
(* disable_unsolicited_replies and with either calibration table, for the  *)
(* messages with id 1.                                                     *)
(***************************************************************************)
GMessages == {message \in DMessages : message.message_id = 1}

InitGate ==
    /\ d_cfg \in [ignore_dms : {FALSE}, ignore_bots : BOOLEAN,
                  disable_unsolicited_replies : BOOLEAN, cap : {0},
                  table : {time_vs_response_chance, ShortTable}]
    /\ guaranteed_responses = EmptyDict
    /\ last_mention_times = EmptyDict
    /\ d_last = NoEvaluation
    /\ d_cool = {}
    /\ FilterIdle /\ QueueIdle /\ QCfgIdle /\ OthersIdle

\* decide_to_respond.log_cooldown(guild_id, channel_id) where it has none
DIdleCooldown(c) ==
    /\ log_cooldown(last_mention_times, GuildOf(c), c) = last_mention_times
    /\ d_cool' = d_cool \cup {c}
    /\ d_cool' # d_cool
    /\ UNCHANGED <<d_cfg, guaranteed_responses, last_mention_times, d_last>>
    /\ UNCHANGED <<fvars, qvars, xvars>>

GateNext ==
    \/ \E c \in {1, DmChannel} : DGuarantee(c, 1)
    \/ \E ts \in 0..MaxTime : DLogMention(1, ts)
    \/ DLogCooldown(1)
    \/ DIdleCooldown(1)
    \/ \E message \in GMessages, r \in Draws : DEvaluate(message, r)

SpecGate == InitGate /\ [][GateNext]_vars

\* the channel has a mention entry that a purge at time now keeps, with no
\* cap on the channels
LiveMention(c, now) ==
    /\ GuildOf(c) \in DOMAIN last_mention_times
    /\ c \in DOMAIN last_mention_times[GuildOf(c)].times
    /\ last_mention_times[GuildOf(c)].times[c]
          >= now - last_mention_cache_timeout(d_cfg.table)

\* C22: an evaluation of a channel message that is neither guaranteed nor
\* directly addressed does not answer respond = true when the message is
\* ignorable or @-mentions others but not the bot, when unsolicited replies are disabled,
\* when log_cooldown was called for the channel after its last log_mention, or
\* when the channel has no live mention entry.
C22_UnsolicitedGated ==
    [][(/\ d_last'.seq # d_last.seq
        /\ d_last'.kind = "channel"
        /\ ~d_last'.guaranteed
        /\ ~d_last'.is_direct
        /\ \/ d_last'.ignorable
           \/ d_last'.asked_mentions = "other"
           \/ d_cfg.disable_unsolicited_replies
           \/ d_last'.channel_id \in d_cool
           \/ ~LiveMention(d_last'.channel_id, MaxTime))
            => ~d_last'.respond]_vars

\* a message nobody is mentioned in was evaluated in a channel that has a live
\* mention entry and is cooling, with unsolicited replies enabled: no response
C22_Witness ==
    /\ d_last.seq = 1
    /\ d_last.kind = "channel"
    /\ ~d_last.guaranteed /\ ~d_last.is_direct /\ ~d_last.ignorable
    /\ d_last.asked_mentions = "none"
    /\ ~d_cfg.disable_unsolicited_replies
    /\ d_last.channel_id \in d_cool
    /\ LiveMention(d_last.channel_id, MaxTime)
    /\ d_last.unsolicited = "no"
    /\ ~d_last.respond

\* C23: an evaluation of an ignorable message that has no guarantee answers
\* (false, false), whether or not the message addresses the bot directly; an
\* ignorable message that has a guarantee is answered.
C23_IgnoreBeforeMention ==
    d_last.ignorable =>
        IF d_last.guaranteed THEN d_last.respond
        ELSE ~d_last.respond /\ ~d_last.direct

\* an ignorable message without a guarantee that addresses the bot directly
\* was evaluated
C23_Witness ==
    /\ d_last.seq = 1
    /\ d_last.ignorable
    /\ ~d_last.guaranteed
    /\ d_last.is_direct
    /\ ~d_last.respond

(***************************************************************************)
(* One pass of a channel's response task over its queue, with the text     *)
(* task of every message and what can fail in it.  Every queued message is *)
(* one should_respond_to_message answers true for, it has a text body, and *)
(* there is no image generator.  An action is one step of a task between   *)
(* two awaits; what the backend and Discord answer is an input of the      *)
(* step.  The text task records in p_text, for the response it works on:   *)
(*   attempts   the iterations of the retry loop begun                     *)
(*   errors     the attempts the backend failed (OobaHttpClientError)      *)
(*   failures, successes   the calls of log_response_failure/_success      *)
(*   stops      the calls of ooba_client.stop                              *)
(*   cut        it was cancelled while the backend was generating          *)
(*   gone       a send failed with HTTP 400, code 50035                    *)
(*   sent       the number of messages sent                                *)
(***************************************************************************)
\* the messages queued when the pass begins
MaxQueue == 2
\* the setting retries
MaxRetries == 1
\* the cancellations of the response task
MaxCancels == 1

\* stream_responses and split_responses: the whole string at once, split by
\* sentence, token streaming, sentence streaming
PModes == {"string", "split", "token", "sentence"}
PCfgs ==
    [mode : PModes, retries : 0..MaxRetries, can_abort : BOOLEAN,
     repetition : BOOLEAN, threads : BOOLEAN]

InitResponse ==
    /\ p_cfg \in PCfgs
    /\ p_queue \in 1..MaxQueue
    /\ p_task = [pc |-> "created", must_cancel |-> FALSE, result |-> "none",
                 waiter |-> "none"]
    /\ p_text = NoText
    /\ p_cancels = 0
    /\ FilterIdle /\ DecideIdle /\ QueueIdle /\ QCfgIdle
    /\ MentionIdle /\ ChanceIdle /\ RepetitionIdle /\ AccumulateIdle

PFrame == UNCHANGED <<p_cfg, fvars, dvars, qvars, mvars, ivars, rvars, avars>>

\* the task is done: it returned, was cancelled, or an exception left it
PEnd(task, result) == [task EXCEPT !.pc = "done", !.result = result, !.must_cancel = FALSE]

\* the loop of _process_message_queue from its test up to the next await:
\* [queue, task, text]
PLoop(queue, task, text) ==
    IF queue = 0 THEN [queue |-> 0, task |-> PEnd(task, "returned"), text |-> text]
    ELSE IF p_cfg.threads
    THEN [queue |-> queue - 1, task |-> [task EXCEPT !.pc = "thread"], text |-> NoText]
    ELSE [queue |-> queue - 1, task |-> [task EXCEPT !.pc = "wait"],
          text |-> [NoText EXCEPT !.pc = "created"]]

PSet(r) == p_queue' = r.queue /\ p_task' = r.task /\ p_text' = r.text

\* the response task's first step
PTaskStart ==
    /\ p_task.pc = "created"
    /\ IF p_task.must_cancel
       THEN p_task' = PEnd(p_task, "cancelled") /\ UNCHANGED <<p_queue, p_text>>
       ELSE PSet(PLoop(p_queue, p_task, p_text))
    /\ UNCHANGED p_cancels /\ PFrame

\* _send_text_response after create_thread: the thread exists, or Discord
\* raised an error, which _process_message_queue logs
PThread(ok) ==
    /\ p_task.pc = "thread"
    /\ IF p_task.must_cancel
       THEN p_task' = PEnd(p_task, "cancelled") /\ UNCHANGED <<p_queue, p_text>>
       ELSE IF ok
       THEN /\ p_task' = [p_task EXCEPT !.pc = "wait"]
            /\ p_text' = [NoText EXCEPT !.pc = "created"]
            /\ UNCHANGED p_queue
       ELSE PSet(PLoop(p_queue, p_task, p_text))
    /\ UNCHANGED p_cancels /\ PFrame

\* the text task ends
TextEnd(tx, result) ==
    [tx EXCEPT !.pc = "done", !.result = result, !.must_cancel = FALSE,
               !.generating = FALSE]

\* _send_text_response_in_channel after an attempt that sent nothing
TextRetry(tx) ==
    IF tx.try < p_cfg.retries
    THEN [tx EXCEPT !.pc = "prompt", !.try = @ + 1, !.attempts = @ + 1,
                    !.generating = FALSE]
    ELSE TextEnd([tx EXCEPT !.failures = @ + 1], "returned")

\* the text task's first step, up to the typing indicator and the history
PTextStart ==
    /\ p_text.pc = "created"
    /\ p_text' = IF p_text.must_cancel THEN TextEnd(p_text, "cancelled")
                 ELSE [p_text EXCEPT !.pc = "prompt", !.attempts = 1]
    /\ UNCHANGED <<p_queue, p_task, p_cancels>> /\ PFrame

\* _generate_text_response up to the request: request_as_string is awaited,
\* or a generator is returned and _render_response begins to read it
PTextPrompt ==
    /\ p_text.pc = "prompt"
    /\ p_text' = IF p_text.must_cancel THEN TextEnd(p_text, "cancelled")
                 ELSE [p_text EXCEPT !.pc = IF p_cfg.mode = "string" THEN "generate"
                                            ELSE "render",
                                     !.generating = TRUE]
    /\ UNCHANGED <<p_queue, p_task, p_cancels>> /\ PFrame

\* request_as_string is over: it returned a text or an empty string, or the
\* backend failed, or the task was cancelled while it waited
PTextGenerated(outcome) ==
    /\ p_text.pc = "generate"
    /\ p_text' =
          IF p_text.must_cancel
          THEN IF p_cfg.can_abort
               THEN [p_text EXCEPT !.pc = "stopping", !.stops = @ + 1, !.cut = TRUE,
                                   !.must_cancel = FALSE]
               ELSE TextEnd([p_text EXCEPT !.cut = TRUE, !.failures = @ + 1], "cancelled")
          ELSE IF outcome = "error"
          THEN TextEnd([p_text EXCEPT !.errors = @ + 1], "raised")
          ELSE IF outcome = "empty" THEN TextRetry(p_text)
          ELSE IF p_cfg.repetition
          THEN TextEnd(p_text, "raised")
          ELSE [p_text EXCEPT !.pc = "render", !.generating = FALSE]
    /\ UNCHANGED <<p_queue, p_task, p_cancels>> /\ PFrame

\* ooba_client.stop is over, in the CancelledError handler of
\* _generate_text_response
PTextStopped(ok) ==
    /\ p_text.pc = "stopping"
    /\ p_text' = IF ok THEN TextEnd([p_text EXCEPT !.failures = @ + 1], "cancelled")
                 ELSE TextEnd(p_text, "raised")
    /\ UNCHANGED <<p_queue, p_task, p_cancels>> /\ PFrame

\* _render_response is over: the response was sent, nothing was there to send,
\* the backend failed while it streamed, Discord refused the reply because the
\* message replied to is gone, or Discord failed otherwise
PTextRendered(outcome) ==
    /\ p_text.pc = "render"
    /\ p_text.generating \/ outcome \in {"sent", "gone", "failed"}
    /\ p_text' =
          IF p_text.must_cancel
          THEN TextEnd([p_text EXCEPT !.cut = p_text.generating], "cancelled")
          ELSE IF outcome = "sent"
          THEN TextEnd([p_text EXCEPT !.sent = @ + 1, !.successes = @ + 1], "returned")
          ELSE IF outcome = "empty" THEN TextRetry(p_text)
          ELSE IF outcome = "error"
          THEN TextEnd([p_text EXCEPT !.errors = @ + 1], "raised")
          ELSE TextEnd([p_text EXCEPT !.gone = (outcome = "gone"), !.failures = @ + 1],
                       "returned")
    /\ UNCHANGED <<p_queue, p_task, p_cancels>> /\ PFrame

\* _handle_response after asyncio.wait: an exception of the text task is logged
PAfterWait ==
    /\ p_task.pc = "wait" /\ ~p_task.must_cancel
    /\ p_text.pc = "done"
    /\ PSet(PLoop(p_queue, p_task, p_text))
    /\ UNCHANGED p_cancels /\ PFrame

\* _handle_response is cancelled in asyncio.wait: it cancels the text task and
\* awaits it
PCancelledInWait ==
    /\ p_task.pc = "wait" /\ p_task.must_cancel
    /\ IF p_text.pc = "done"
       THEN IF p_text.result = "raised"
            THEN p_task' = PEnd(p_task, "raised") /\ UNCHANGED <<p_queue, p_text>>
            ELSE PSet(PLoop(p_queue, [p_task EXCEPT !.must_cancel = FALSE], p_text))
       ELSE /\ p_task' = [p_task EXCEPT !.pc = "cleanup", !.must_cancel = FALSE]
            /\ p_text' = [p_text EXCEPT !.must_cancel = TRUE]
            /\ UNCHANGED p_queue
    /\ UNCHANGED p_cancels /\ PFrame

\* the cancelled text task is done and "await task" returns or raises
PAfterCleanup ==
    /\ p_task.pc = "cleanup"
    /\ p_text.pc = "done"
    /\ IF p_text.result = "raised"
       THEN p_task' = PEnd(p_task, "raised") /\ UNCHANGED <<p_queue, p_text>>
       ELSE PSet(PLoop(p_queue, p_task, p_text))
    /\ UNCHANGED p_cancels /\ PFrame

\* cancel_response_task while the response task has not begun its cleanup:
\* from process_messages, which then awaits the cancelled task, or from _panic
PCancel(waits) ==
    /\ p_cancels < MaxCancels
    /\ p_task.pc \in {"created", "thread", "wait"}
    /\ ~p_task.must_cancel
    /\ p_task' = [p_task EXCEPT !.must_cancel = TRUE,
                                !.waiter = IF waits THEN "waiting" ELSE @]
    /\ p_cancels' = p_cancels + 1
    /\ UNCHANGED <<p_queue, p_text>> /\ PFrame

\* process_messages after "await cancelled_task": the response task is done
PHandlerResume ==
    /\ p_task.waiter = "waiting"
    /\ p_task.pc = "done"
    /\ p_task' = [p_task EXCEPT !.waiter = "resumed"]
    /\ UNCHANGED <<p_queue, p_text, p_cancels>> /\ PFrame

ResponseNext ==
    \/ PTaskStart
    \/ \E ok \in BOOLEAN : PThread(ok)
    \/ PTextStart
    \/ PTextPrompt
    \/ \E outcome \in {"text", "empty", "error"} : PTextGenerated(outcome)
    \/ \E ok \in BOOLEAN : PTextStopped(ok)
    \/ \E outcome \in {"sent", "empty", "error", "gone", "failed"} : PTextRendered(outcome)
    \/ PAfterWait
    \/ PCancelledInWait
    \/ PAfterCleanup
    \/ \E waits \in BOOLEAN : PCancel(waits)
    \/ PHandlerResume

SpecResponse == InitResponse /\ [][ResponseNext]_vars

\* the steps the event loop takes by itself: a task that is ready runs, a
\* cancellation is delivered, a finished task wakes who awaits it.  What waits
\* for Discord or for the backend goes on when they answer, if they do
PLoopStep ==
    \/ PTaskStart
    \/ PTextStart
    \/ PAfterWait
    \/ PCancelledInWait
    \/ PAfterCleanup
    \/ PHandlerResume
    \/ p_task.must_cancel /\ \E ok \in BOOLEAN : PThread(ok)
    \/ p_text.must_cancel /\ PTextPrompt
    \/ p_text.must_cancel /\ \E outcome \in {"text"} : PTextGenerated(outcome)
    \/ p_text.must_cancel /\ \E outcome \in {"sent"} : PTextRendered(outcome)

SpecResponseFair == InitResponse /\ [][ResponseNext]_vars /\ WF_vars(PLoopStep)

\* C24: no exception other than cancellation leaves a channel's response
\* task: a failure while one message is handled is logged and the task goes
\* on with the messages still queued.
C24_FailureContained == p_task.pc = "done" => p_task.result # "raised"

\* C25: a generation attempt the backend fails is retried like an empty
\* response: unless the response was sent or cancelled, every attempt up to
\* the configured retries is made and the response is recorded as failed.
C25_BackendErrorRetried ==
    (p_text.pc = "done" /\ p_text.errors > 0 /\ p_text.result # "cancelled"
        /\ p_text.sent = 0)
        => p_text.attempts = p_cfg.retries + 1 /\ p_text.failures = 1

\* C26: a response that was cancelled is not counted by log_response_failure.
C26_CancelIsNoFailure ==
    (p_text.pc = "done" /\ p_text.result = "cancelled") => p_text.failures = 0

\* C27: when the text task is cancelled while the backend generates and the
\* backend can abort, ooba_client.stop has been called by the time the text
\* task is done, in every response mode.
C27_CancelStopsBackend ==
    (p_text.pc = "done" /\ p_text.cut /\ p_cfg.can_abort) => p_text.stops > 0

\* C28: when a reply fails because the message replied to is gone (HTTP 400,
\* code 50035), the response text is still sent and the response is not
\* counted as failed.
C28_DeletedTargetDegrades ==
    (p_text.pc = "done" /\ p_text.gone) => p_text.sent > 0 /\ p_text.failures = 0

\* C34: when _send_text_response_in_channel is over it has made at most
\* retries + 1 attempts, and it has recorded one outcome and no more: a
\* success if an attempt sent a message, a failure otherwise.
C34_OneOutcome ==
    p_text.pc = "done" =>
        /\ p_text.attempts <= p_cfg.retries + 1
        /\ p_text.successes + p_text.failures = 1
        /\ p_text.successes = 1 <=> p_text.sent > 0

\* C29: the wait of process_messages for the response task it cancelled is
\* bounded: the handler stops waiting, whether or not the cancelled task
\* finishes.
C29_BoundedCancelWait == (p_task.waiter = "waiting") ~> (p_task.waiter # "waiting")

\* ---------------------------------------------------------------------------
\* The accumulation window of one channel: MessageQueue.buffer and
\* MessageQueue._accumulate_messages, with time in tenths of a second (the
\* period is rounded to one decimal and the loop sleeps 0.1 s).
\* ---------------------------------------------------------------------------

MaxPeriod == 2
MaxExtra == 2
MaxNow == 3
MaxBacklog == 1

ACfgs == [period : 1..MaxPeriod, extra : 0..MaxExtra, latest_only : BOOLEAN]

InitAccumulate ==
    /\ a_cfg \in ACfgs
    /\ a_now = 0
    /\ a_queue \in 0..MaxBacklog
    /\ a_buffer = 0
    /\ a_wait = NoWait
    /\ FilterIdle /\ DecideIdle /\ QueueIdle /\ QCfgIdle
    /\ MentionIdle /\ ChanceIdle /\ RepetitionIdle /\ ResponseIdle

AFrame == UNCHANGED <<a_cfg, fvars, dvars, qvars, mvars, ivars, rvars, pvars>>

\* the condition of the while loop of _accumulate_messages
keep_waiting(queue, queue_length, now, start_time, cfg) ==
    /\ queue < queue_length + cfg.extra + 1
    /\ now < start_time + cfg.period

\* the test of the loop and what follows it up to the next await: another
\* sleep of 0.1 s, or the return
loop_test(w, queue, buffered, now, cfg) ==
    IF keep_waiting(queue, w.queue_length, now, w.start_time, cfg)
    THEN [w EXCEPT !.pc = "nap", !.wake = now + 1, !.seen = buffered - 1]
    ELSE [w EXCEPT !.pc = "done", !.seen = buffered - 1]

\* buffer, first call of a window: the message goes to the buffer and the
\* wait task is created
ABufferFirst ==
    /\ a_wait.pc = "none"
    /\ a_buffer' = a_buffer + 1
    /\ a_wait' = [NoWait EXCEPT !.pc = "created"]
    /\ UNCHANGED <<a_now, a_queue>> /\ AFrame

\* buffer, a later call of the window: the message goes to the buffer
ABufferMore ==
    /\ a_wait.pc \in {"created", "nap", "sleep"}
    /\ a_buffer < MaxExtra + 1
    /\ a_buffer' = a_buffer + 1
    /\ UNCHANGED <<a_now, a_queue, a_wait>> /\ AFrame

\* _accumulate_messages from its start to its first await
AWaitStart ==
    /\ a_wait.pc = "created"
    /\ a_wait' = IF a_cfg.extra # 0
                 THEN loop_test([a_wait EXCEPT !.queue_length = a_queue,
                                               !.start_time = a_now],
                                a_queue, a_buffer, a_now, a_cfg)
                 ELSE [a_wait EXCEPT !.pc = "sleep", !.start_time = a_now,
                                     !.wake = a_now + a_cfg.period]
    /\ UNCHANGED <<a_now, a_queue, a_buffer>> /\ AFrame

\* the sleep of 0.1 s is over: the queue length is read again, then the loop
\* is tested
ANapEnd ==
    /\ a_wait.pc = "nap"
    /\ a_now >= a_wait.wake
    /\ a_wait' = loop_test([a_wait EXCEPT !.queue_length = a_queue],
                           a_queue, a_buffer, a_now, a_cfg)
    /\ UNCHANGED <<a_now, a_queue, a_buffer>> /\ AFrame

\* the sleep of the whole period is over
ASleepEnd ==
    /\ a_wait.pc = "sleep"
    /\ a_now >= a_wait.wake
    /\ a_wait' = [a_wait EXCEPT !.pc = "done"]
    /\ UNCHANGED <<a_now, a_queue, a_buffer>> /\ AFrame

\* buffer after the wait: the buffer is flushed to the queue
AFlush ==
    /\ a_wait.pc = "done"
    /\ a_queue' = IF a_buffer = 0 THEN a_queue
                  ELSE IF a_cfg.latest_only THEN a_queue + 1
                  ELSE a_queue + a_buffer
    /\ a_buffer' = 0
    /\ a_wait' = [a_wait EXCEPT !.pc = "flushed"]
    /\ UNCHANGED a_now /\ AFrame

\* the response task of the channel pops a message of an earlier window
AQueuePop ==
    /\ a_wait.pc \in {"created", "nap", "sleep"}
    /\ a_queue > 0
    /\ a_queue' = a_queue - 1
    /\ UNCHANGED <<a_now, a_buffer, a_wait>> /\ AFrame

\* a handler of an earlier window, back from its wait for a cancelled task,
\* queues its message again
AQueueAppend ==
    /\ a_wait.pc \in {"created", "nap", "sleep"}
    /\ a_queue < MaxBacklog
    /\ a_queue' = a_queue + 1
    /\ UNCHANGED <<a_now, a_buffer, a_wait>> /\ AFrame

\* a tenth of a second passes
ATick ==
    /\ a_now < MaxNow
    /\ a_now' = a_now + 1
    /\ UNCHANGED <<a_queue, a_buffer, a_wait>> /\ AFrame

AccumulateNext ==
    \/ ABufferFirst
    \/ ABufferMore
    \/ AWaitStart
    \/ ANapEnd
    \/ ASleepEnd
    \/ AFlush
    \/ AQueuePop
    \/ AQueueAppend
    \/ ATick

SpecAccumulate == InitAccumulate /\ [][AccumulateNext]_vars

\* C30: with continue_on_additional_messages = N > 0 the accumulation wait
\* ends as soon as N additional messages have arrived in the window (it does
\* not go back to sleep when it finds them), and otherwise it ends when the
\* period has elapsed.
C30_DebounceEarlyExit ==
    /\ (a_cfg.extra > 0 /\ a_wait.pc = "nap") => a_wait.seen < a_cfg.extra
    /\ a_wait.pc \in {"done", "flushed"} =>
          \/ a_cfg.extra > 0 /\ a_wait.seen >= a_cfg.extra
          \/ a_now >= a_wait.start_time + a_cfg.period

(***************************************************************************)
(* Further properties of the queue and the response tasks.                 *)
(***************************************************************************)
\* the handler h of a message that superseded the response in progress goes
\* on in this step, past its wait for the cancelled task, with its message
\* still queued
Supersedes(h) ==
    /\ handlers[h].pc = "cancel_wait"
    /\ handlers'[h].pc # "cancel_wait"
    /\ contains_message(QState, handlers[h].ch, handlers[h].msg)

\* C31: with skip_in_progress_responses and respond_to_latest_only, the step
\* in which the handler of a superseding message m goes on after its wait
\* leaves m alone in the channel's queue (the older messages are discarded)
\* and no guaranteed-response entry of the channel other than m's own.
C31_CollapseOnSupersede ==
    [][\A h \in QHandlers :
          LET c == handlers[h].ch
              m == handlers[h].msg
          IN  (q_cfg.skip /\ q_cfg.latest_only /\ Supersedes(h))
              => /\ c \in DOMAIN queues'
                 /\ queues'[c] = <<m>>
                 /\ get_guarantees(guaranteed_responses', c) \subseteq {m}]_vars

(***************************************************************************)
(* Wakewords.  A body text is a sequence of characters: "a" and "A" are    *)
(* one letter in its two cases, "b" is another letter, " " is a space.     *)
(* Persona compiles every wakeword w to the pattern \bw\b with             *)
(* re.IGNORECASE; the wakewords here are words, made of letters.           *)
(***************************************************************************)
MaxBody == 3

WChars == {"a", "A", "b", " "}
WBodies == UNION {[1..n -> WChars] : n \in 0..MaxBody}
\* the configured lists of wakewords
WWakewords == {<<>>, << <<"a">> >>, << <<"b">>, <<"A", "b">> >>}

\* \w
IsWordChar(ch) == ch \in {"a", "A", "b"}

\* the case folding of re.IGNORECASE
fold(ch) == IF ch = "A" THEN "a" ELSE ch

\* \b between the characters k and k + 1 of text: a word character on one
\* side only, the ends of the text counting as no word character
WordBoundary(text, k) ==
    (k \in 1..Len(text) /\ IsWordChar(text[k]))
        # (k + 1 \in 1..Len(text) /\ IsWordChar(text[k + 1]))

\* the pattern of wakeword, taken literally, matches text at position i
MatchesAt(text, wakeword, i, folded) ==
    /\ i + Len(wakeword) - 1 <= Len(text)
    /\ \A j \in 1..Len(wakeword) :
          IF folded THEN fold(text[i + j - 1]) = fold(wakeword[j])
          ELSE text[i + j - 1] = wakeword[j]
    /\ WordBoundary(text, i - 1)
    /\ WordBoundary(text, i + Len(wakeword) - 1)

\* a contains_wakeword whose patterns are compiled without re.IGNORECASE
contains_wakeword_case_sensitive(message, wakewords) ==
    \E n \in 1..Len(wakewords) : \E i \in 1..Len(message) :
        MatchesAt(message, wakewords[n], i, FALSE)

\* Persona.contains_wakeword
contains_wakeword(message, wakewords) ==
    \E n \in 1..Len(wakewords) : \E i \in 1..Len(message) :
        MatchesAt(message, wakewords[n], i, TRUE)

\* the evaluated messages: a body text stands for the wakeword flag
WMessages ==
    {[message_id |-> 1, channel_id |-> c, guild_id |-> GuildOf(c),
      kind |-> ChannelKind(c), author |-> a, hidden |-> FALSE,
      mentions |-> m, body |-> b, bang |-> FALSE, send_timestamp |-> MaxTime] :
        c \in DEvalChannels, a \in {"user", "self"}, m \in {"none", "bot"},
        b \in WBodies}

InitWakeword ==
    /\ d_cfg \in [ignore_dms : BOOLEAN, ignore_bots : {TRUE},
                  disable_unsolicited_replies : {FALSE}, cap : {0},
                  table : {time_vs_response_chance}, wakewords : WWakewords]
    /\ guaranteed_responses = EmptyDict
    /\ last_mention_times = EmptyDict
    /\ d_last = NoEvaluation
    /\ d_cool = {}
    /\ FilterIdle /\ QueueIdle /\ QCfgIdle /\ OthersIdle

\* should_respond_to_message for a message with a body text, on a channel
\* where no mention was logged
WEvaluated(m) ==
    LET message == [m EXCEPT !.body = None] @@
                   [wakeword |-> contains_wakeword(m.body, d_cfg.wakewords)]
        u == provide_unsolicited_response_in_channel(last_mention_times, message, d_cfg, 0)
        res == should_respond_to_message(guaranteed_responses, message, d_cfg, u.result)
    IN  /\ guaranteed_responses' = res.guaranteed
        /\ d_last' = [seq |-> 1 - d_last.seq,
                      message_id |-> m.message_id,
                      channel_id |-> m.channel_id,
                      kind |-> m.kind,
                      guaranteed |-> m.message_id
                          \in get_guarantees(guaranteed_responses, m.channel_id),
                      ignorable |-> should_ignore_message(message, d_cfg),
                      is_direct |-> is_directly_mentioned(message, d_cfg),
                      unsolicited |-> IF ~res.asked THEN "unasked"
                                      ELSE IF u.result THEN "yes" ELSE "no",
                      respond |-> res.respond,
                      direct |-> res.direct,
                      asked_mentions |-> IF res.asked THEN m.mentions ELSE None,
                      mentions |-> m.mentions,
                      body |-> m.body]
        /\ UNCHANGED <<d_cfg, d_cool, last_mention_times>>
        /\ UNCHANGED <<fvars, qvars, xvars>>

\* one evaluation a run, guarantees logged before it
WEvaluate(m) == d_last = NoEvaluation /\ WEvaluated(m)

WGuarantee(c) == d_last = NoEvaluation /\ DGuarantee(c, 1)

WakewordNext ==
    \/ \E c \in DEvalChannels : WGuarantee(c)
    \/ \E m \in WMessages : WEvaluate(m)

SpecWakeword == InitWakeword /\ [][WakewordNext]_vars

\* text holds wakeword as a whole word, whatever the case of its letters:
\* the letters of wakeword in a row, with no letter right before or after
HoldsWord(text, wakeword) ==
    \E i \in 1..Len(text) :
        /\ i + Len(wakeword) - 1 <= Len(text)
        /\ \A j \in 1..Len(wakeword) : fold(text[i + j - 1]) = fold(wakeword[j])
        /\ i = 1 \/ ~IsWordChar(text[i - 1])
        /\ i + Len(wakeword) - 1 = Len(text) \/ ~IsWordChar(text[i + Len(wakeword)])

\* the last evaluation was of a message that is not ignorable and holds a
\* configured wakeword as a whole word
WakewordCase ==
    /\ d_last.message_id # 0
    /\ ~d_last.ignorable
    /\ \E n \in 1..Len(d_cfg.wakewords) : HoldsWord(d_last.body, d_cfg.wakewords[n])

QueueOf(q, c) == IF c \in DOMAIN q THEN q[c] ELSE <<>>

\* the step is the arrival in channel c of a message that is ignorable; a
\* message that arrives is not guaranteed a response
IgnorableArrives(c) ==
    /\ next_id' = next_id + 1
    /\ q_msgs'[next_id] = "ignored"
    /\ should_ignore_message(QMessage(q_msgs', c, next_id), QDecideCfg)

\* the step leaves buffers, wait tasks, handlers, panics and the existing
\* response tasks as they are
Undisturbed ==
    /\ buffers' = buffers
    /\ wait_tasks' = wait_tasks
    /\ handlers' = handlers
    /\ panic_tasks' = panic_tasks
    /\ panics' = panics
    /\ guaranteed_responses' = guaranteed_responses
    /\ last_mention_times' = last_mention_times
    /\ \A t \in QTasks : tasks[t].pc # "free" => tasks'[t] = tasks[t]

\* the step puts the arriving message in the queue of c, starts a response
\* task if none is responding, and does nothing else
OnlyQueued(c) ==
    /\ Undisturbed
    /\ queues' = DictPut(queues, c, <<next_id>> \o QueueOf(queues, c))
    /\ IF is_responding(QState, c)
       THEN tasks' = tasks /\ response_tasks' = response_tasks /\ ready' = ready
       ELSE /\ c \in DOMAIN response_tasks'
            /\ tasks[response_tasks'[c]].pc = "free"
            /\ tasks'[response_tasks'[c]].pc = "created"
            /\ ready' = Append(ready, <<"task", response_tasks'[c]>>)

\* C33: the arrival of an ignorable message starts no accumulation wait,
\* cancels no response task and does not reorganise the queue: all it does
\* is to put the message in the channel's queue, and to start a response
\* task if none is responding.
C33_IgnorableOnlyQueued ==
    [][\A c \in QChannels : IgnorableArrives(c) => OnlyQueued(c)]_vars

\* C33 with the panic: while the channel panics the message is dropped and
\* nothing changes at all; otherwise all the arrival does is to queue it.
C33_IgnorableQueuedOrDropped ==
    [][\A c \in QChannels :
          IgnorableArrives(c) =>
              IF is_panicking(QState, c)
              THEN /\ Undisturbed
                   /\ queues' = queues /\ tasks' = tasks
                   /\ response_tasks' = response_tasks /\ ready' = ready
              ELSE OnlyQueued(c)]_vars

\* with skip_in_progress_responses and an accumulation period, an ignorable
\* message that arrived during a response is queued behind nothing else
\* while the response task goes on, not cancelled, and no window is open
C33_Witness ==
    /\ q_cfg.skip /\ q_cfg.accumulate
    /\ \E c \in QChannels, m \in QIds :
          /\ m < next_id
          /\ q_msgs[m] = "ignored"
          /\ m \in q_busy
          /\ QueueOf(queues, c) = <<m>>
          /\ c \notin DOMAIN wait_tasks
          /\ c \notin DOMAIN buffers
          /\ is_responding(QState, c)
          /\ tasks[response_tasks[c]].pc = "wait"
          /\ ~tasks[response_tasks[c]].must_cancel

(***************************************************************************)
(* Past the last threshold: the unsolicited response in a text channel and *)
(* in a voice call, for the same table and the same time since the last    *)
(* mention.                                                                *)
(***************************************************************************)
MaxParticipants == 4

\* the times since the last mention: at, between and past the thresholds
BElapsed == {0, 30, 60, 61, 120, 180, MaxElapsed + 1}
\* the values random.random() is drawn from, in percent
BDraws == {0, 30, 50, 99}

Min(a, b) == IF a <= b THEN a ELSE b

\* a provide_voice_response that divides by the number of participants
provide_voice_response_by_participants(elapsed, number_of_participants, table, r) ==
    IF number_of_participants = 1
    THEN [reply |-> TRUE, n |-> 100, d |-> 1, raised |-> FALSE]
    ELSE LET c == calc_interpolated_response_chance(elapsed, table)
             base == IF c.n = 0 THEN [n |-> table[Len(table)].chance, d |-> 1] ELSE c
             k == number_of_participants
         IN  IF c.raised \/ k = 0
             THEN [reply |-> FALSE, n |-> 0, d |-> 1, raised |-> TRUE]
             ELSE [reply |-> r * base.d * k <= base.n,
                   n |-> base.n, d |-> base.d * k, raised |-> FALSE]

\* DecideToRespond.provide_voice_response with the draw r of random.random():
\* [reply, the response chance n / d in percent, raised]
provide_voice_response(elapsed, number_of_participants, table, r) ==
    IF number_of_participants = 1
    THEN [reply |-> TRUE, n |-> 100, d |-> 1, raised |-> FALSE]
    ELSE LET c == calc_interpolated_response_chance(elapsed, table)
             base == IF c.n = 0 THEN [n |-> table[Len(table)].chance, d |-> 1] ELSE c
             k == Min(3, number_of_participants)
         IN  IF c.raised \/ k = 0
             THEN [reply |-> FALSE, n |-> 0, d |-> 1, raised |-> TRUE]
             ELSE [reply |-> r * base.d * k <= base.n,
                   n |-> base.n, d |-> base.d * k, raised |-> FALSE]

InitBeyond ==
    /\ i_table \in {ParseTable(setting, <<>>) : setting \in ISettings}
    /\ i_elapsed \in BElapsed
    /\ i_args \in [participants : 1..MaxParticipants, bang : BOOLEAN, r : BDraws]
    /\ i_out = [called |-> FALSE, n |-> 0, d |-> 1, raised |-> FALSE]
    /\ FilterIdle /\ DecideIdle /\ QueueIdle /\ QCfgIdle /\ MentionIdle /\ RepetitionIdle
    /\ ResponseIdle /\ AccumulateIdle

\* a message sent in guild channel 1 at time i_elapsed, where the bot was last
\* mentioned at time 0, is asked about with provide_unsolicited_response_in_channel,
\* and a voice call is asked about with provide_voice_response
BeyondCall ==
    /\ ~i_out.called
    /\ LET cfg == [QDecideCfg EXCEPT !.table = i_table]
           message == [message_id |-> 1, channel_id |-> 1, guild_id |-> GuildOf(1),
                       kind |-> "channel", author |-> "user", hidden |-> FALSE,
                       mentions |-> "none", wakeword |-> FALSE, bang |-> i_args.bang,
                       send_timestamp |-> i_elapsed]
           text == provide_unsolicited_response_in_channel(
                       log_mention(EmptyDict, GuildOf(1), 1, 0), message, cfg, i_args.r)
           voice == provide_voice_response(i_elapsed, i_args.participants, i_table,
                                           i_args.r)
       IN  i_out' = [called |-> TRUE, n |-> voice.n, d |-> voice.d,
                     raised |-> voice.raised \/ text.raised,
                     text |-> text.result, voice |-> voice.reply]
    /\ UNCHANGED <<i_table, i_elapsed, i_args, fvars, dvars, qvars, mvars, rvars, pvars, avars>>

SpecBeyond == InitBeyond /\ [][BeyondCall]_vars

\* the time since the last mention is greater than the last threshold
PastLastThreshold == i_elapsed > i_table[Len(i_table)].duration

MentionRecorded(c) ==
    LET g == GuildOf(c)
    IN  /\ g \in DOMAIN last_mention_times'
        /\ c \in DOMAIN last_mention_times'[g].times
        /\ \/ g \notin DOMAIN last_mention_times
           \/ c \notin DOMAIN last_mention_times[g].times
           \/ last_mention_times[g].times[c] # last_mention_times'[g].times[c]

\* C36: in every reachable state the cooldown set of every guild's tracker
\* holds only channels the tracker has a last-mention timestamp for, and
\* every step that records a mention of a channel leaves the channel out of
\* cooldown.
C36_CooldownsTracked ==
    /\ [](\A g \in DOMAIN last_mention_times :
             last_mention_times[g].cooldowns \subseteq DOMAIN last_mention_times[g].times)
    /\ [][\A c \in MChannels :
             MentionRecorded(c)
                 => c \notin last_mention_times'[GuildOf(c)].cooldowns]_vars

\* a purge has dropped a channel of the guild, and another channel of the
\* guild, still tracked, is in cooldown
C36_Witness ==
    /\ m_calls # <<>>
    /\ TheGuild \in DOMAIN m_base
    /\ TheGuild \in DOMAIN last_mention_times
    /\ DOMAIN last_mention_times[TheGuild].times # DOMAIN m_base[TheGuild].times
    /\ last_mention_times[TheGuild].cooldowns # {}

\* the number of times m stands in the sequence q
(***************************************************************************)
(* The bot without accumulation and without skipping, followed for one     *)
(* event more than Spec follows every configuration: no handler waits for  *)
(* a buffer or for a cancelled task, and the other steps are those of Spec. *)
(***************************************************************************)
\* the messages, pokes, unpokes and deletions of a run of the plain configuration
MaxLongEvents == 4

LongCfgs ==
    [accumulate : {FALSE}, latest_only : {FALSE}, skip : {FALSE},
     events : {MaxLongEvents}]

InitLong == FilterIdle /\ DecideIdle /\ QueueIdle /\ OthersIdle /\ q_cfg \in LongCfgs

LongNext ==
    \/ \E c \in QChannels, shape \in QShapes, h \in QHandlers : Arrive(c, shape, h)
    \/ \E c \in QChannels, m \in QIds, h \in QHandlers : Poke(c, m, h)
    \/ \E c \in QChannels : Unpoke(c)
    \/ \E c \in QChannels, m \in QIds : Delete(c, m)
    \/ \E t \in QTasks : TaskStart(t)
    \/ \E t \in QTasks : TaskPresend(t)
    \/ \E t \in QTasks : TextDone(t)
    \/ \E t \in QTasks : ImageDone(t)
    \/ \E c \in QChannels : StrayDone(c)
    \/ \E t \in QTasks : TaskAfterWait(t)
    \/ \E t \in QTasks : TaskCancelledInWait(t)
    \/ \E t \in QTasks : TaskAfterCleanup(t)
    \/ \E t \in QTasks : TaskDoneCallback(t)
    \/ \E p \in QPanics : PanicStart(p)
    \/ \E p \in QPanics : PanicWake(p)
    \/ \E p \in QPanics : PanicDoneCallback(p)
    \/ \E h \in QHandlers : CalmResume(h)

SpecLong == InitLong /\ [][LongNext]_vars

RECURSIVE Occurrences(_, _)
Occurrences(q, m) ==
    IF q = <<>> THEN 0
    ELSE (IF Head(q) = m THEN 1 ELSE 0) + Occurrences(Tail(q), m)

\* the step is one of a panic: a panic task is created, runs or is cleaned up
PanicStep == panics' # panics

\* the response task t takes m from the queue in this step and answers it
Answered(c, m) ==
    /\ Occurrences(QueueOf(queues', c), m) < Occurrences(QueueOf(queues, c), m)
    /\ \E t \in QTasks :
          /\ tasks'[t] # tasks[t]
          /\ tasks'[t].ch = c
          /\ tasks'[t].cur = m
          /\ tasks'[t].pc \in {"presend", "wait"}

\* C37: the guarantee of a message that is queued leaves the channel's set
\* only in the step that takes the message from the queue and answers it,
\* or in a step of a panic: no evaluation of another message, purge at the
\* end of a pass or reorganisation of the queue removes it.
C37_GuaranteeKept ==
    [][\A c \in QChannels, m \in QIds :
          (/\ m \in get_guarantees(guaranteed_responses, c)
           /\ m \notin get_guarantees(guaranteed_responses', c)
           /\ contains_message(QState, c, m)
           /\ ~PanicStep)
              => Answered(c, m)]_vars

\* the response tasks created for the channel that have not finished
UnfinishedTasks(c) ==
    {t \in QTasks : tasks[t].ch = c /\ tasks[t].pc \in {"created", "presend", "wait", "cleanup"}}

\* C38: in every reachable state in which a response task created for a channel
\* has not finished, is_responding(channel) is true and response_tasks holds
\* that task: the done callback of a finished task has not removed the entry
\* of a newer task that still runs.
C38_TrackingExact ==
    \A c \in QChannels : \A t \in UnfinishedTasks(c) :
        /\ is_responding(QState, c)
        /\ response_tasks[c] = t

\* C39: a call of process_messages adds its message to the channel's queue
\* once: the part of the call that follows the cancellation of the active
\* response task leaves the channel's queue with no more entries of the call's
\* message than it found there.
C39_AddedOnce ==
    [][\A h \in QHandlers :
          Supersedes(h) =>
              Occurrences(QueueOf(queues', handlers[h].ch), handlers[h].msg)
                  <= Occurrences(QueueOf(queues, handlers[h].ch), handlers[h].msg)]_vars

(***************************************************************************)
(* Attention: the mentions that are logged while messages of a guild       *)
(* channel are handled.  A message is evaluated by                         *)
(* should_respond_to_message and, when it is answered, _send_text_response *)
(* logs a mention for it if it summoned the bot; /poke, /say and /edit log *)
(* a mention of their own, /say in the guild's other channel too.  d_last  *)
(* keeps, next to the evaluation, the history the properties speak of:     *)
(* mentioned is the timestamp of the last direct mention, poke, /say or    *)
(* /edit of the channel, and unsolicited_since tells that an unsolicited   *)
(* response was sent in it after that.                                     *)
(***************************************************************************)
\* the send timestamps of the messages and commands
MaxStamp == 3
TStamps == 0..MaxStamp
\* no mention so far
Never == 0 - 1

\* the messages of users in channel 1, with or without an @-mention of the bot
\* and a closing exclamation mark
TMessages ==
    {[message_id |-> 1, channel_id |-> 1, guild_id |-> GuildOf(1),
      kind |-> ChannelKind(1), author |-> "user", hidden |-> FALSE,
      mentions |-> m, wakeword |-> FALSE, bang |-> b, send_timestamp |-> ts] :
        m \in {"none", "bot"}, b \in BOOLEAN, ts \in TStamps}

InitAttention ==
    /\ d_cfg \in [ignore_dms : {FALSE}, ignore_bots : {TRUE},
                  disable_unsolicited_replies : {FALSE}, cap : {0, 1},
                  table : {time_vs_response_chance, ShortTable}]
    /\ guaranteed_responses = EmptyDict
    /\ last_mention_times = EmptyDict
    /\ d_last = [seq |-> 0, send_timestamp |-> 0,
                 unsolicited |-> "unasked", respond |-> FALSE,
                 mentioned |-> Never, unsolicited_since |-> FALSE]
    /\ d_cool = {}
    /\ FilterIdle /\ QueueIdle /\ QCfgIdle /\ OthersIdle

\* a _send_text_response that logs a mention for every message it answers,
\* summon or not
log_summon_always(lmt, message, is_summon_in_public_channel) ==
    log_mention(lmt, message.guild_id, message.channel_id, message.send_timestamp)

\* DiscordBot._send_text_response, the mention it logs for a message that has
\* content: the tracker afterwards
log_summon(lmt, message, is_summon_in_public_channel) ==
    IF is_summon_in_public_channel
    THEN log_mention(lmt, message.guild_id, message.channel_id, message.send_timestamp)
    ELSE lmt

\* the mention event of channel 1 at timestamp ts enters the history
Mentioned(ts) == [d_last EXCEPT !.mentioned = ts, !.unsolicited_since = FALSE]

\* _process_message_queue takes the message from the queue: it is evaluated
\* and, if it is to be answered, _send_text_response is called for it
THandle(message, r) ==
    LET u == provide_unsolicited_response_in_channel(last_mention_times, message, d_cfg, r)
        res == should_respond_to_message(guaranteed_responses, message, d_cfg, u.result)
        lmt == IF res.asked THEN u.lmt ELSE last_mention_times
        summoned == res.respond /\ is_directly_mentioned(message, d_cfg)
        history == IF summoned THEN Mentioned(message.send_timestamp) ELSE d_last
    IN  /\ ~(res.asked /\ u.raised)
        /\ res.asked \/ \A x \in Draws : r <= x
        /\ guaranteed_responses' = res.guaranteed
        /\ last_mention_times' =
              IF res.respond
              THEN log_summon(lmt, message,
                              res.direct /\ message.kind \in {"channel", "group"})
              ELSE lmt
        /\ d_cool' = IF summoned THEN d_cool \ {message.channel_id} ELSE d_cool
        /\ d_last' = [history EXCEPT
                        !.seq = 1 - d_last.seq,
                        !.send_timestamp = message.send_timestamp,
                        !.unsolicited = IF ~res.asked THEN "unasked"
                                        ELSE IF u.result THEN "yes" ELSE "no",
                        !.respond = res.respond,
                        !.unsolicited_since =
                            IF summoned THEN FALSE ELSE @ \/ (res.asked /\ u.result)]
        /\ UNCHANGED d_cfg
        /\ UNCHANGED <<fvars, qvars, xvars>>

\* on_poke up to its call of process_messages: the message is guaranteed a
\* response and a mention is logged with the message's timestamp
TPoke(ts) ==
    /\ guaranteed_responses' = guarantee_response(guaranteed_responses, 1, 1)
    /\ last_mention_times' = log_mention(last_mention_times, GuildOf(1), 1, ts)
    /\ d_cool' = d_cool \ {1}
    /\ d_last' = Mentioned(ts)
    /\ UNCHANGED d_cfg
    /\ UNCHANGED <<fvars, qvars, xvars>>

\* /say and /edit: a mention is logged with the interaction's timestamp
TSay(c, ts) ==
    /\ last_mention_times' = log_mention(last_mention_times, GuildOf(c), c, ts)
    /\ d_cool' = d_cool \ {c}
    /\ d_last' = IF c = 1 THEN Mentioned(ts) ELSE d_last
    /\ UNCHANGED <<d_cfg, guaranteed_responses>>
    /\ UNCHANGED <<fvars, qvars, xvars>>

AttentionNext ==
    \/ \E message \in TMessages, r \in Draws : THandle(message, r)
    \/ \E ts \in TStamps : TPoke(ts)
    \/ \E c \in GuildChannels, ts \in TStamps : TSay(c, ts)
    \/ DLogCooldown(1)

SpecAttention == InitAttention /\ [][AttentionNext]_vars

\* the tracked mention time of channel c, Never if the channel is not tracked
TrackedTime(lmt, c) ==
    IF GuildOf(c) \in DOMAIN lmt /\ c \in DOMAIN lmt[GuildOf(c)].times
    THEN lmt[GuildOf(c)].times[c] ELSE Never

\* C40: the handling of a message that gets an unsolicited response logs no
\* mention (the channel's tracked mention time is not set anew and the last
\* mention event stays the last), and a message is given an unsolicited
\* response only if its send timestamp is at most the timestamp of the
\* channel's last mention event plus the largest threshold of the text table.
C40_AttentionDecays ==
    [][(/\ d_last'.seq # d_last.seq
        /\ d_last'.unsolicited = "yes")
           => /\ d_last'.mentioned = d_last.mentioned
              /\ TrackedTime(last_mention_times', 1)
                     \in {Never, TrackedTime(last_mention_times, 1)}
              /\ d_last.mentioned # Never
              /\ d_last'.send_timestamp
                     <= d_last.mentioned + last_mention_cache_timeout(d_cfg.table)]_vars

\* after a mention, an unsolicited response was sent in the channel and then a
\* message sent later than the mention plus the largest threshold was
\* evaluated and got none
C40_Witness ==
    /\ d_last.mentioned # Never
    /\ d_last.unsolicited_since
    /\ d_last.unsolicited = "no"
    /\ d_last.send_timestamp
          > d_last.mentioned + last_mention_cache_timeout(d_cfg.table)

====
